---- MODULE Spec2Model ----
(***************************************************************************)
(* The simulated course API of src/lib/api.ts: the in-memory course store  *)
(* of MockApiClient, the withRetry backoff loop, the public coursesApi     *)
(* wrappers with their error translation, and the checkApiHealth race.     *)
(*                                                                         *)
(* Time is the JavaScript timer queue: every pending setTimeout is kept as *)
(* the number of milliseconds left until it fires, and the timer with the  *)
(* least time left fires next.  Code between two awaits runs in one step.  *)
(*                                                                         *)
(* On top of it, the state of the dashboard of src/app/page.tsx and of its *)
(* two dialogs, src/components/student-form.tsx and                        *)
(* src/components/delete-confirmation-dialog.tsx.                          *)
(***************************************************************************)
EXTENDS Integers, Sequences, FiniteSets, TLC

VARIABLES
    courses,   \* MockApiClient.courses: the sequence of course records
    calls,     \* the public calls not yet handed back, by call number
    log,       \* the store mutations that took effect, in order
    page,      \* the useState values of StudentManagementDashboard
    form,      \* the useState values of the StudentForm in the Add dialog
    dialog,    \* the useState values of DeleteConfirmationDialog
    tasks      \* the handleSubmit / handleConfirm runs and timers pending

ui == <<page, form, dialog, tasks>>

vars == <<courses, calls, log, page, form, dialog, tasks>>

----------------------------------------------------------------------------
(* Bounds of the model *)

MaxMutations == 3   \* store mutations that take effect in one run

----------------------------------------------------------------------------
(* Records as JavaScript objects: a function from the field names present *)

\* { ...a, ...b }: the fields of b override those of a
Spread(a, b) ==
    [f \in DOMAIN a \cup DOMAIN b |-> IF f \in DOMAIN b THEN b[f] ELSE a[f]]

Has(o, f) == f \in DOMAIN o

\* course.isActive used as a condition: present and true
IsActive(c) == Has(c, "isActive") /\ c.isActive = TRUE

----------------------------------------------------------------------------
(* Strings as sequences of characters *)

IsSpace(ch) == ch = " "

RECURSIVE TrimStart(_)
TrimStart(s) ==
    IF s = <<>> THEN s
    ELSE IF IsSpace(Head(s)) THEN TrimStart(Tail(s)) ELSE s

RECURSIVE TrimEnd(_)
TrimEnd(s) ==
    IF s = <<>> THEN s
    ELSE IF IsSpace(s[Len(s)]) THEN TrimEnd(SubSeq(s, 1, Len(s) - 1)) ELSE s

\* String.prototype.trim
Trim(s) == TrimEnd(TrimStart(s))

----------------------------------------------------------------------------
(* Configuration *)

API_CONFIG == [timeout |-> 10000, retryAttempts |-> 3, retryDelay |-> 1000]

\* every operation as quick as the quickest
simulateNetworkDelayShort(op) == 800 - 400
\* the delay each store operation passes to simulateNetworkDelay
simulateNetworkDelay(op) ==
    CASE op = "getCourses"   -> 800
      [] op = "getCourse"    -> 400
      [] op = "createCourse" -> 1200
      [] op = "updateCourse" -> 900
      [] op = "deleteCourse" -> 600

\* the delay of the timeout promise in checkApiHealth
HealthTimeoutSlow == 5000 + 1000
HealthTimeout == 5000

----------------------------------------------------------------------------
(* Errors *)

NetworkError(message, status) ==
    [name |-> "NetworkError", message |-> message, status |-> status]

ValidationError(message) ==
    [name |-> "ValidationError", message |-> message]

PlainError(message) == [name |-> "Error", message |-> message]

\* what `throw lastError!` throws when the loop body never ran
Undefined == [name |-> "undefined"]

NotFound(id) == NetworkError(<<"Course with ID ", id, " not found">>, 404)

----------------------------------------------------------------------------
(* MockApiClient: the store and its operations *)

\* private courses: Course[] = [...], the five seed records
SeedCourses == <<    [id |-> 1,
     name |-> <<"H", "T", "M", "L", " ", "B", "a", "s", "i", "c", "s">>,
     description |-> "Learn the fundamentals of HTML markup language",
     duration |-> "4 weeks", instructor |-> "Sarah Johnson",
     enrollmentCount |-> 156, isActive |-> TRUE],
    [id |-> 2,
     name |-> <<"C", "S", "S", " ", "M", "a", "s", "t", "e", "r", "y">>,
     description |-> "Master CSS styling and responsive design",
     duration |-> "6 weeks", instructor |-> "Mike Chen",
     enrollmentCount |-> 203, isActive |-> TRUE],
    [id |-> 3,
     name |-> <<"J", "a", "v", "a", "S", "c", "r", "i", "p", "t", " ", "P", "r", "o">>,
     description |-> "Advanced JavaScript concepts and ES6+ features",
     duration |-> "8 weeks", instructor |-> "Alex Rodriguez",
     enrollmentCount |-> 189, isActive |-> TRUE],
    [id |-> 4,
     name |-> <<"R", "e", "a", "c", "t", " ", "I", "n", " ", "D", "e", "p", "t", "h">>,
     description |-> "Build modern web applications with React",
     duration |-> "10 weeks", instructor |-> "Emily Davis",
     enrollmentCount |-> 245, isActive |-> TRUE],
    [id |-> 5,
     name |-> <<"N", "o", "d", "e", ".", "j", "s", " ", "B", "a", "c", "k", "e", "n", "d">>,
     description |-> "Server-side development with Node.js and Express",
     duration |-> "8 weeks", instructor |-> "David Kim",
     enrollmentCount |-> 134, isActive |-> TRUE] >>
DataEngineering == <<"D", "a", "t", "a", " ", "E", "n", "g", "i", "n", "e", "e", "r", "i", "n", "g">>

Ids(cs) == {cs[i].id : i \in DOMAIN cs}

\* Math.max(...xs); Math.max() of no arguments is -Infinity, which stays
\* -Infinity when 1 is added: it is kept as a number below every id
MinusInfinity == 0 - 2^30
MathMax(xs) ==
    IF xs = {} THEN MinusInfinity ELSE CHOOSE m \in xs : \A x \in xs : x <= m

\* Array.prototype.findIndex over the positions the predicate holds at,
\* 1-based; 0 stands for JavaScript's -1
FindIndex(hits) ==
    IF hits = {} THEN 0 ELSE CHOOSE i \in hits : \A j \in hits : i <= j

Ok(data, cs) == [ok |-> TRUE, data |-> data, courses |-> cs]
Throw(error, cs) == [ok |-> FALSE, error |-> error, courses |-> cs]

AllCourses(cs) == cs
\* this.courses.filter((course) => course.isActive)
ActiveCourses(cs) == SelectSeq(cs, IsActive)

\* the two Math.random draws of fetchCourses: the first below 0.1 is the
\* network fault, otherwise the second below 0.05 is the validation fault
Faults == {"none", "network", "validation"}

\* a fetchCourses that drops the inactive records from the store
fetchCoursesPruning(cs, fault) ==
    IF fault = "network"
    THEN Throw(NetworkError("Service temporarily unavailable", 503), cs)
    ELSE IF fault = "validation"
    THEN Throw(ValidationError("Invalid request parameters"), cs)
    ELSE Ok(ActiveCourses(cs), ActiveCourses(cs))
\* a fetchCourses that never fails
fetchCoursesReliable(cs, fault) == Ok(ActiveCourses(cs), cs)
fetchCourses(cs, fault) ==
    IF fault = "network"
    THEN Throw(NetworkError("Service temporarily unavailable", 503), cs)
    ELSE IF fault = "validation"
    THEN Throw(ValidationError("Invalid request parameters"), cs)
    ELSE Ok(ActiveCourses(cs), cs)

\* a lookup that finds inactive records too
fetchCourseByIdAnyState(cs, id) ==
    LET i == FindIndex({k \in DOMAIN cs : cs[k].id = id})
    IN  IF i = 0 THEN Throw(NotFound(id), cs) ELSE Ok(cs[i], cs)
\* this.courses.find((c) => c.id === id && c.isActive)
fetchCourseById(cs, id) ==
    LET i == FindIndex({k \in DOMAIN cs : cs[k].id = id /\ IsActive(cs[k])})
    IN  IF i = 0 THEN Throw(NotFound(id), cs) ELSE Ok(cs[i], cs)

\* !courseData.name || courseData.name.trim().length < 3
NameUntrimmedTooShort(courseData) ==
    \/ ~Has(courseData, "name")
    \/ courseData.name = <<>>
    \/ Len(courseData.name) < 3
NameTooShort(courseData) ==
    \/ ~Has(courseData, "name")
    \/ courseData.name = <<>>
    \/ Len(Trim(courseData.name)) < 3

\* Math.max(...this.courses.map((c) => c.id)) + 1
NextIdByLength(cs) == Len(cs) + 1
\* an id computed from the store as it was when the module was loaded
NextIdStale(cs) == Len(SeedCourses) + 1
NextId(cs) ==
    LET m == MathMax(Ids(cs))
    IN  IF m = MinusInfinity THEN MinusInfinity ELSE m + 1

\* { ...courseData, id: ..., enrollmentCount: 0, isActive: true }
NewCourseDataLast(cs, courseData) ==
    Spread([id |-> NextId(cs), enrollmentCount |-> 0, isActive |-> TRUE], courseData)
NewCourse(cs, courseData) ==
    Spread(courseData, [id |-> NextId(cs), enrollmentCount |-> 0, isActive |-> TRUE])

\* a create that pushes the record before it validates the name
createCoursePushingFirst(cs, courseData) ==
    LET newCourse == NewCourse(cs, courseData)
    IN  IF NameTooShort(courseData)
        THEN Throw(ValidationError("Course name must be at least 3 characters long"),
                   Append(cs, newCourse))
        ELSE Ok(newCourse, Append(cs, newCourse))
\* a create that puts the record in front
createCourseUnshift(cs, courseData) ==
    IF NameTooShort(courseData)
    THEN Throw(ValidationError("Course name must be at least 3 characters long"), cs)
    ELSE LET newCourse == NewCourse(cs, courseData)
         IN  Ok(newCourse, <<newCourse>> \o cs)
\* this.courses.push(newCourse)
createCourse(cs, courseData) ==
    IF NameTooShort(courseData)
    THEN Throw(ValidationError("Course name must be at least 3 characters long"), cs)
    ELSE LET newCourse == NewCourse(cs, courseData)
         IN  Ok(newCourse, Append(cs, newCourse))

\* an update that stores the partial in place of the record
updateCourseReplacing(cs, id, updates) ==
    LET courseIndex == FindIndex({k \in DOMAIN cs : cs[k].id = id})
    IN  IF courseIndex = 0 THEN Throw(NotFound(id), cs)
        ELSE LET merged == Spread([id |-> id, isActive |-> TRUE], updates)
             IN  Ok(merged, [cs EXCEPT ![courseIndex] = merged])
\* this.courses[courseIndex] = { ...this.courses[courseIndex], ...updates }
updateCourse(cs, id, updates) ==
    LET courseIndex == FindIndex({k \in DOMAIN cs : cs[k].id = id})
    IN  IF courseIndex = 0 THEN Throw(NotFound(id), cs)
        ELSE LET merged == Spread(cs[courseIndex], updates)
             IN  Ok(merged, [cs EXCEPT ![courseIndex] = merged])

\* a delete that takes the record out of the array
deleteCourseRemoving(cs, id) ==
    LET courseIndex == FindIndex({k \in DOMAIN cs : cs[k].id = id})
    IN  IF courseIndex = 0 THEN Throw(NotFound(id), cs)
        ELSE Ok(TRUE, [k \in 1..(Len(cs) - 1) |->
                          IF k < courseIndex THEN cs[k] ELSE cs[k + 1]])
\* a delete that looks the id up among the active records only
deleteCourseActiveOnly(cs, id) ==
    LET courseIndex == FindIndex({k \in DOMAIN cs : cs[k].id = id /\ IsActive(cs[k])})
    IN  IF courseIndex = 0 THEN Throw(NotFound(id), cs)
        ELSE Ok(TRUE, [cs EXCEPT ![courseIndex] = Spread(@, [isActive |-> FALSE])])
\* a delete that reports an unknown id by returning false
deleteCourseSilently(cs, id) ==
    LET courseIndex == FindIndex({k \in DOMAIN cs : cs[k].id = id})
    IN  IF courseIndex = 0 THEN Ok(FALSE, cs)
        ELSE Ok(TRUE, [cs EXCEPT ![courseIndex] = Spread(@, [isActive |-> FALSE])])
\* this.courses[courseIndex].isActive = false
deleteCourse(cs, id) ==
    LET courseIndex == FindIndex({k \in DOMAIN cs : cs[k].id = id})
    IN  IF courseIndex = 0 THEN Throw(NotFound(id), cs)
        ELSE Ok(TRUE, [cs EXCEPT ![courseIndex] = Spread(@, [isActive |-> FALSE])])

\* the store operation a public call passes to withRetry
Operation(op, cs, id, data, fault, n) ==
    CASE op = "getCourses"   -> fetchCourses(cs, fault)
      [] op = "getCourse"    -> fetchCourseById(cs, id)
      [] op = "createCourse" -> createCourse(cs, data)
      [] op = "updateCourse" -> updateCourse(cs, id, data)
      [] op = "deleteCourse" -> deleteCourse(cs, id)
      \* any operation handed to withRetry: its n-th invocation either
      \* returns its own value or throws its own error
      [] op = "operation"    ->
            IF fault = "none" THEN Ok(<<"value", n>>, cs)
            ELSE Throw(PlainError(<<"failure", n>>), cs)

\* the outcomes an attempt of the operation can have
FaultsOf(op) ==
    CASE op = "getCourses" -> Faults
      [] op = "operation"  -> {"none", "failure"}
      [] OTHER             -> {"none"}

Mutations == {"createCourse", "updateCourse", "deleteCourse"}

----------------------------------------------------------------------------
(* coursesApi: the catch clause of each public wrapper *)

\* every wrapper rethrowing a NetworkError as it is
TranslateRethrowing(op, error) ==
    IF error.name = "NetworkError" THEN error
    ELSE PlainError("An unexpected error occurred")
\* every wrapper throwing a new Error whatever it caught
TranslateEverything(op, error) == PlainError(<<"Failed: ", op>>)
Translate(op, error) ==
    CASE op = "getCourses" ->
            IF error.name = "NetworkError"
            THEN PlainError(<<"Network error: ", error.message,
                              " (Status: ", error.status, ")">>)
            ELSE IF error.name = "ValidationError"
            THEN PlainError(<<"Validation error: ", error.message>>)
            ELSE PlainError("An unexpected error occurred while fetching courses")
      [] op = "getCourse" ->
            IF error.name = "NetworkError" THEN error
            ELSE PlainError("Failed to fetch course")
      [] op = "createCourse" ->
            IF error.name = "ValidationError" THEN error
            ELSE PlainError("Failed to create course")
      [] op = "updateCourse" ->
            IF error.name = "NetworkError" THEN error
            ELSE PlainError("Failed to update course")
      [] op = "deleteCourse" ->
            IF error.name = "NetworkError" THEN error
            ELSE PlainError("Failed to delete course")
      \* withRetry called directly: nothing is translated
      [] op = "operation" -> error

----------------------------------------------------------------------------
(* A call: one run of withRetry inside a public wrapper.  checkApiHealth   *)
(* is a call whose retry loop is that of its getCourses, raced against the *)
(* timeout timer.                                                          *)

NoValue == <<>>

\* the operation a call retries
Inner(op) == IF op = "checkApiHealth" THEN "getCourses" ELSE op

\* delay * Math.pow(2, attempt - 1)
BackoffLinear(delay, attempt) == delay * attempt
BackoffDelay(delay, attempt) == delay * 2^(attempt - 1)

\* if (attempt === maxAttempts) throw lastError
NeverLastAttempt(attempt, maxAttempts) == FALSE
IsLastAttempt(attempt, maxAttempts) == attempt = maxAttempts

\* what checkApiHealth returns when getCourses settles first
RaceAlwaysTrue(ok) == TRUE
RaceResult(ok) == ok

\* what checkApiHealth returns when the timeout promise rejects first
TimeoutResolves == "true"
TimeoutVerdict == "false"

\* a settling in which the outcome of the list call always decides the race
SettleOverridingRace(call, ok, value) ==
    [call EXCEPT !.pc = IF ok THEN "done" ELSE "failed",
                 !.timer = -1,
                 !.settledAt = call.elapsed,
                 !.result = IF ok THEN value ELSE NoValue,
                 !.error = IF ok THEN NoValue ELSE Translate(Inner(call.op), value),
                 !.race = IF call.race = "none" THEN "none"
                          ELSE IF ok THEN "true" ELSE "false",
                 !.raceAt = IF call.race = "none" THEN -1 ELSE call.elapsed]
\* the promise of the public call settles; a checkApiHealth still racing
\* returns at the same instant
Settle(call, ok, value) ==
    LET settled == [call EXCEPT !.pc = IF ok THEN "done" ELSE "failed",
                                !.timer = -1,
                                !.settledAt = call.elapsed,
                                !.result = IF ok THEN value ELSE NoValue,
                                !.error = IF ok THEN NoValue
                                          ELSE Translate(Inner(call.op), value)]
    IN  IF call.race = "racing"
        THEN [settled EXCEPT !.race = IF RaceResult(ok) THEN "true" ELSE "false",
                             !.raceAt = call.elapsed]
        ELSE settled

\* an operation that awaits its simulated delay on the first invocation only
InvokeDelayedOnce(call, attempt) ==
    [call EXCEPT !.attempt = attempt, !.pc = "latency",
                 !.timer = IF attempt = 1 THEN call.latency ELSE 0,
                 !.invoked = @ + 1]
\* the operation is invoked: it starts its simulated delay
Invoke(call, attempt) ==
    [call EXCEPT !.attempt = attempt, !.pc = "latency",
                 !.timer = call.latency, !.invoked = @ + 1]

\* a withRetry that returns undefined when its loop body never ran
NewCallReturning(op, id, data, maxAttempts, delay, latency) ==
    LET call == [op |-> op, id |-> id, data |-> data,
                 maxAttempts |-> maxAttempts, delay |-> delay, latency |-> latency,
                 attempt |-> 0, pc |-> "start", timer |-> -1,
                 invoked |-> 0, waited |-> 0, elapsed |-> 0,
                 lastError |-> Undefined, result |-> NoValue, error |-> NoValue,
                 at |-> 0, settledAt |-> -1, raceAt |-> -1,
                 race |-> IF op = "checkApiHealth" THEN "racing" ELSE "none",
                 timeout |-> IF op = "checkApiHealth" THEN HealthTimeout ELSE -1]
    IN  IF 1 <= maxAttempts THEN Invoke(call, 1)
        ELSE Settle(call, TRUE, Undefined)
\* withRetry is entered: for (let attempt = 1; attempt <= maxAttempts; ...)
NewCall(op, id, data, maxAttempts, delay, latency) ==
    LET call == [op |-> op, id |-> id, data |-> data,
                 maxAttempts |-> maxAttempts, delay |-> delay, latency |-> latency,
                 attempt |-> 0, pc |-> "start", timer |-> -1,
                 invoked |-> 0, waited |-> 0, elapsed |-> 0,
                 lastError |-> Undefined, result |-> NoValue, error |-> NoValue,
                 at |-> 0, settledAt |-> -1, raceAt |-> -1,
                 race |-> IF op = "checkApiHealth" THEN "racing" ELSE "none",
                 timeout |-> IF op = "checkApiHealth" THEN HealthTimeout ELSE -1]
    IN  IF 1 <= maxAttempts THEN Invoke(call, 1)
        ELSE Settle(call, FALSE, Undefined)

\* the catch clause of withRetry
\* a catch clause that keeps the first error it caught
CatchKeepingFirst(call, error) ==
    LET first == IF call.lastError = Undefined THEN error ELSE call.lastError
        caught == [call EXCEPT !.lastError = first]
    IN  IF IsLastAttempt(call.attempt, call.maxAttempts)
        THEN Settle(caught, FALSE, first)
        ELSE LET backoffDelay == BackoffDelay(call.delay, call.attempt)
             IN  [caught EXCEPT !.pc = "backoff", !.timer = backoffDelay,
                                !.waited = @ + backoffDelay]
\* a catch clause that starts the next attempt without awaiting the backoff
CatchWithoutWaiting(call, error) ==
    LET caught == [call EXCEPT !.lastError = error]
    IN  IF IsLastAttempt(call.attempt, call.maxAttempts)
        THEN Settle(caught, FALSE, error)
        ELSE Invoke(caught, call.attempt + 1)
\* a catch clause that gives up at once on a ValidationError or a 404
CatchSkippingTerminal(call, error) ==
    LET caught == [call EXCEPT !.lastError = error]
    IN  IF \/ IsLastAttempt(call.attempt, call.maxAttempts)
           \/ error.name = "ValidationError"
           \/ (error.name = "NetworkError" /\ error.status = 404)
        THEN Settle(caught, FALSE, error)
        ELSE LET backoffDelay == BackoffDelay(call.delay, call.attempt)
             IN  [caught EXCEPT !.pc = "backoff", !.timer = backoffDelay,
                                !.waited = @ + backoffDelay]
Catch(call, error) ==
    LET caught == [call EXCEPT !.lastError = error]
    IN  IF IsLastAttempt(call.attempt, call.maxAttempts)
        THEN Settle(caught, FALSE, error)
        ELSE LET backoffDelay == BackoffDelay(call.delay, call.attempt)
             IN  [caught EXCEPT !.pc = "backoff", !.timer = backoffDelay,
                                !.waited = @ + backoffDelay]

\* the backoff is over: attempt++, the loop test, the next invocation
\* a backoff after which nothing is resumed
RetryNever(call) == call
Retry(call) ==
    IF call.attempt + 1 <= call.maxAttempts
    THEN Invoke(call, call.attempt + 1)
    ELSE Settle(call, FALSE, call.lastError)

----------------------------------------------------------------------------
(* The timer queue *)

Min(xs) == CHOOSE m \in xs : \A x \in xs : m <= x

PendingTimes(cs) ==
    {cs[c].timer : c \in {d \in DOMAIN cs : cs[d].timer >= 0}}
    \cup {cs[c].timeout : c \in {d \in DOMAIN cs : cs[d].timeout >= 0}}

\* the time until the next timer fires
Due(cs) == Min(PendingTimes(cs))

\* d milliseconds pass
Elapse(cs, d) ==
    [c \in DOMAIN cs |->
        [cs[c] EXCEPT !.timer = IF @ >= 0 THEN @ - d ELSE @,
                      !.timeout = IF @ >= 0 THEN @ - d ELSE @,
                      !.elapsed = IF cs[c].timer >= 0 \/ cs[c].timeout >= 0
                                  THEN @ + d ELSE @]]

----------------------------------------------------------------------------
(* The arguments the callers pass *)

IdArgs == {3, 6}

CourseDatas ==
    { [name |-> DataEngineering],
      [name |-> DataEngineering, enrollmentCount |-> 42, isActive |-> FALSE],
      [name |-> <<" ", "a", "b", " ">>],
      [name |-> <<>>],
      [description |-> "a course without a name"] }

CourseUpdates ==
    { [id |-> 2], [isActive |-> TRUE], [name |-> <<"a", "b">>] }

----------------------------------------------------------------------------
(* The dashboard and its dialogs as they are constructed *)

\* null, and a value that may be null
Null == <<>>
Some(x) == <<x>>

\* the useState initial values of StudentManagementDashboard, and where its
\* effect and its asynchronous functions stand: fetching and checking are the
\* numbers of the calls fetchCourses and checkHealth await, opened counts the
\* times the Add dialog was opened
InitialPage ==
    [students |-> <<>>, courses |-> <<>>, loading |-> TRUE, error |-> Null,
     apiHealthy |-> "null", retryCount |-> 0,
     isAddDialogOpen |-> FALSE, isDeleteDialogOpen |-> FALSE,
     deletingStudent |-> Null,
     mounted |-> FALSE, fetching |-> 0, checking |-> 0, opened |-> 0]

\* the useState initial values of a StudentForm without initialData, mounted
\* for the instance-th opening of the Add dialog
FreshForm(instance) ==
    [mounted |-> TRUE, instance |-> instance,
     formData |-> [name |-> <<>>, email |-> <<>>, course |-> <<>>, profileImage |-> <<>>],
     errors |-> <<>>, isSubmitting |-> FALSE, submitSuccess |-> FALSE]

\* the Add dialog is closed: its content is not mounted
NoForm == [FreshForm(0) EXCEPT !.mounted = FALSE]

\* the useState initial values of DeleteConfirmationDialog
InitialDialog == [isDeleting |-> FALSE, error |-> Null]

InitialUi ==
    /\ page = InitialPage
    /\ form = NoForm
    /\ dialog = InitialDialog
    /\ tasks = {}

----------------------------------------------------------------------------
(* The state machine *)

Init ==
    /\ courses = SeedCourses
    /\ calls = <<>>
    /\ log = <<>>
    /\ InitialUi

Finished(call) ==
    /\ call.pc \in {"done", "failed"}
    /\ call.timeout < 0
    /\ call.race # "racing"

\* the continuation of a caller awaiting a settled call runs before any
\* timer callback and before anything the caller starts next
Quiet == \A c \in DOMAIN calls : ~Finished(calls[c])

\* the calls in flight that may still change the store
Mutating == {c \in DOMAIN calls : calls[c].op \in Mutations /\ ~Finished(calls[c])}

\* the number a new call is kept under
FreeSlot == Min((1..(Cardinality(DOMAIN calls) + 1)) \ DOMAIN calls)

\* the caller awaits each call before it starts the next one
Sequential == DOMAIN calls = {}

\* a caller starts a public operation: everything up to its first await
Issue(op, id, data) ==
    /\ Quiet
    /\ Sequential
    /\ op \in Mutations => Len(log) + Cardinality(Mutating) < MaxMutations
    /\ calls' = (FreeSlot   :> NewCall(op, id, data, API_CONFIG.retryAttempts,
                                       API_CONFIG.retryDelay,
                                       simulateNetworkDelay(Inner(op)))) @@ calls
    /\ UNCHANGED <<courses, log, ui>>

Call_getCourses == Issue("getCourses", 0, NoValue)
Call_getCourse == \E id \in IdArgs : Issue("getCourse", id, NoValue)
Call_createCourse == \E data \in CourseDatas : Issue("createCourse", 0, data)
Call_updateCourse ==
    \E id \in IdArgs : \E updates \in CourseUpdates : Issue("updateCourse", id, updates)
Call_deleteCourse == \E id \in IdArgs : Issue("deleteCourse", id, NoValue)
Call_checkApiHealth == Issue("checkApiHealth", 0, NoValue)

\* the delay timer of an attempt fires: the rest of the store operation
\* runs, and then the return or the catch clause of withRetry
AttemptSettles(c) ==
    /\ Quiet
    /\ calls[c].pc = "latency"
    /\ calls[c].timer = Due(calls)
    /\ \E fault \in FaultsOf(Inner(calls[c].op)) :
         LET aged == Elapse(calls, Due(calls))
             call == aged[c]
             r == Operation(Inner(call.op), courses, call.id, call.data,
                            fault, call.attempt)
         IN  /\ courses' = r.courses
             /\ log' = IF r.ok /\ call.op \in Mutations
                       THEN Append(log, [op |-> call.op, id |-> call.id,
                                         data |-> call.data, result |-> r.data])
                       ELSE log
             /\ calls' = [aged EXCEPT ![c] =
                            IF r.ok
                            THEN Settle([call EXCEPT !.at = Len(log)], TRUE, r.data)
                            ELSE Catch(call, r.error)]
    /\ UNCHANGED ui

\* the backoff timer fires
BackoffEnds(c) ==
    /\ Quiet
    /\ calls[c].pc = "backoff"
    /\ calls[c].timer = Due(calls)
    /\ calls' = [Elapse(calls, Due(calls)) EXCEPT ![c] = Retry(@)]
    /\ UNCHANGED <<courses, log, ui>>

\* the timeout timer of checkApiHealth fires and rejects its promise; a
\* race that is already settled ignores it
TimeoutFires(c) ==
    /\ Quiet
    /\ calls[c].timeout >= 0
    /\ calls[c].timeout = Due(calls)
    /\ LET aged == Elapse(calls, Due(calls))
           call == [aged[c] EXCEPT !.timeout = -1]
       IN  calls' = [aged EXCEPT ![c] =
                        IF call.race = "racing"
                        THEN [call EXCEPT !.race = TimeoutVerdict,
                                          !.raceAt = call.elapsed]
                        ELSE call]
    /\ UNCHANGED <<courses, log, ui>>

\* the caller has taken the outcome and nothing of the call is pending
HandBack(c) ==
    /\ Finished(calls[c])
    /\ calls' = [d \in DOMAIN calls \ {c} |-> calls[d]]
    /\ UNCHANGED <<courses, log, ui>>

Next ==
    \/ Call_getCourses
    \/ Call_getCourse
    \/ Call_createCourse
    \/ Call_updateCourse
    \/ Call_deleteCourse
    \/ Call_checkApiHealth
    \/ \E c \in DOMAIN calls : AttemptSettles(c)
    \/ \E c \in DOMAIN calls : BackoffEnds(c)
    \/ \E c \in DOMAIN calls : TimeoutFires(c)
    \/ \E c \in DOMAIN calls : HandBack(c)

Spec == Init /\ [][Next]_vars

\* the callback of the timer that is due
TimerFires ==
    \E c \in DOMAIN calls : AttemptSettles(c) \/ BackoffEnds(c) \/ TimeoutFires(c)

\* the runs of Spec with fewer mutations
MaxShortMutations == 2

ShortNext ==
    /\ Next
    /\ Len(log) + Cardinality({c \in DOMAIN calls' : /\ calls'[c].op \in Mutations
                                                     /\ ~Finished(calls'[c])})
          <= MaxShortMutations

ShortSpec == Init /\ [][ShortNext]_vars

\* the timer that is due fires, and the attempt behind a delay timer settles
LiveSpec == ShortSpec /\ WF_vars(TimerFires)

----------------------------------------------------------------------------
(* Callers that do not await each other: createCourse calls in flight      *)
(* together                                                                *)

MaxInFlight == 2
MaxConcurrentCreates == 2

\* a caller starts a createCourse while others are in flight
ConcurrentIssue(data) ==
    /\ Quiet
    /\ Cardinality(DOMAIN calls) < MaxInFlight
    /\ Len(log) + Cardinality(Mutating) < MaxConcurrentCreates
    /\ calls' = (FreeSlot :> NewCall("createCourse", 0, data,
                                     API_CONFIG.retryAttempts, API_CONFIG.retryDelay,
                                     simulateNetworkDelay("createCourse"))) @@ calls
    /\ UNCHANGED <<courses, log, ui>>

\* two valid course data and one that createCourse rejects
ConcurrentDatas == {data \in CourseDatas : Has(data, "name") /\ data.name # <<>>}

ConcurrentNext ==
    \/ \E data \in ConcurrentDatas : ConcurrentIssue(data)
    \/ \E c \in DOMAIN calls : AttemptSettles(c)
    \/ \E c \in DOMAIN calls : BackoffEnds(c)
    \/ \E c \in DOMAIN calls : HandBack(c)

ConcurrentSpec == Init /\ [][ConcurrentNext]_vars

----------------------------------------------------------------------------
(* withRetry on its own: one call on any operation, with any maxAttempts   *)
(* and delay                                                               *)

MaxTriedAttempts == 5

AttemptsTried == (0 - 1)..MaxTriedAttempts
DelaysTried == {API_CONFIG.retryDelay, 250}
LatenciesTried == {0, 800}

RetryInit ==
    /\ courses = SeedCourses
    /\ log = <<>>
    /\ \E maxAttempts \in AttemptsTried, delay \in DelaysTried,
          latency \in LatenciesTried :
         calls = (1 :> NewCall("operation", 0, NoValue, maxAttempts, delay, latency))
    /\ InitialUi

RetryNext ==
    \/ \E c \in DOMAIN calls : AttemptSettles(c)
    \/ \E c \in DOMAIN calls : BackoffEnds(c)

RetrySpec == RetryInit /\ [][RetryNext]_vars

----------------------------------------------------------------------------
(* The dashboard: fetchCourses, checkHealth and the effect that starts     *)
(* both when the page is mounted                                           *)

MaxRetries == 2   \* clicks on the Retry button in one run

\* err instanceof Error ? err.message : "Failed to fetch courses"
ErrorMessage(err) ==
    IF Has(err, "message") THEN err.message ELSE "Failed to fetch courses"

\* fetchCourses up to its await of the call kept under number
StartFetch(p, showRetryCount, number) ==
    [p EXCEPT !.loading = TRUE, !.error = Null,
              !.retryCount = IF showRetryCount THEN @ + 1 ELSE @,
              !.fetching = number]

\* fetchCourses after the await: the rest of the try block, and finally
FetchSucceeded(p, fetchedCourses) ==
    [p EXCEPT !.courses = fetchedCourses, !.apiHealthy = "true",
              !.loading = FALSE, !.fetching = 0]

\* a catch block without the finally block after it
FetchFailedStillLoading(p, err) ==
    [p EXCEPT !.error = Some(ErrorMessage(err)), !.apiHealthy = "false",
              !.fetching = 0]
\* fetchCourses after the await: the catch block, and finally
FetchFailed(p, err) ==
    [p EXCEPT !.error = Some(ErrorMessage(err)), !.apiHealthy = "false",
              !.loading = FALSE, !.fetching = 0]

\* checkHealth after its await
HealthChecked(p, healthy) == [p EXCEPT !.apiHealthy = healthy, !.checking = 0]

GetCoursesCall ==
    NewCall("getCourses", 0, NoValue, API_CONFIG.retryAttempts,
            API_CONFIG.retryDelay, simulateNetworkDelay("getCourses"))

CheckApiHealthCall ==
    NewCall("checkApiHealth", 0, NoValue, API_CONFIG.retryAttempts,
            API_CONFIG.retryDelay, simulateNetworkDelay("getCourses"))

\* useEffect(() => { fetchCourses(); checkHealth() }, []): both run up to
\* their await
Mount ==
    /\ ~page.mounted
    /\ calls' = (1 :> GetCoursesCall) @@ (2 :> CheckApiHealthCall)
    /\ page' = [StartFetch(page, FALSE, 1) EXCEPT !.mounted = TRUE, !.checking = 2]
    /\ UNCHANGED <<courses, log, form, dialog, tasks>>

\* a promise fetchCourses or checkHealth awaits has settled: its continuation
\* runs before any timer callback and any click
PagePending ==
    \/ page.fetching # 0 /\ Finished(calls[page.fetching])
    \/ page.checking # 0 /\ calls[page.checking].race # "racing"

\* the error view is shown and its Retry button is clicked: fetchCourses(true)
ClickRetry ==
    /\ page.mounted
    /\ ~page.loading
    /\ page.error # Null
    /\ ~PagePending
    /\ page.retryCount < MaxRetries
    /\ calls' = (FreeSlot :> GetCoursesCall) @@ calls
    /\ page' = StartFetch(page, TRUE, FreeSlot)
    /\ UNCHANGED <<courses, log, form, dialog, tasks>>

\* the getCourses call of fetchCourses has settled
FetchReturns ==
    /\ page.fetching # 0
    /\ Finished(calls[page.fetching])
    /\ page' = IF calls[page.fetching].pc = "done"
               THEN FetchSucceeded(page, calls[page.fetching].result)
               ELSE FetchFailed(page, calls[page.fetching].error)
    /\ calls' = [d \in DOMAIN calls \ {page.fetching} |-> calls[d]]
    /\ UNCHANGED <<courses, log, form, dialog, tasks>>

\* checkApiHealth has returned
HealthReturns ==
    /\ page.checking # 0
    /\ calls[page.checking].race # "racing"
    /\ page' = HealthChecked(page, calls[page.checking].race)
    /\ UNCHANGED <<courses, calls, log, form, dialog, tasks>>

\* a timer of one of the calls fires
CallTimerFires(c) ==
    /\ ~PagePending
    /\ (AttemptSettles(c) \/ BackoffEnds(c) \/ TimeoutFires(c))

\* nothing awaits the call any more and nothing of it is pending
Forget(c) ==
    /\ c \notin {page.fetching, page.checking}
    /\ HandBack(c)

DashboardNext ==
    \/ Mount
    \/ ClickRetry
    \/ FetchReturns
    \/ HealthReturns
    \/ \E c \in DOMAIN calls : CallTimerFires(c)
    \/ \E c \in DOMAIN calls : Forget(c)

DashboardSpec == Init /\ [][DashboardNext]_vars

\* the effect runs, due timers fire and continuations run
DashboardRuns ==
    \/ Mount
    \/ FetchReturns
    \/ HealthReturns
    \/ \E c \in DOMAIN calls : CallTimerFires(c)
    \/ \E c \in DOMAIN calls : Forget(c)

DashboardLiveSpec == DashboardSpec /\ WF_vars(DashboardRuns)

----------------------------------------------------------------------------
(* The student form in the Add Student dialog, and the delete confirmation *)
(* dialog                                                                  *)

MaxOpens == 2   \* times the Add Student dialog is opened in one run

\* String.prototype.toLowerCase, over the letters the inputs use
LowerChar(ch) == CASE ch = "A" -> "a" [] ch = "L" -> "l" [] OTHER -> ch

ToLowerCase(s) == [i \in 1..Len(s) |-> LowerChar(s[i])]

\* /^[^\s@]+@[^\s@]+\.[^\s@]+$/.test(email): no white space, one "@" that
\* is not the first character, and after it a "." with a character on
\* either side
validateEmail(email) ==
    /\ \A i \in 1..Len(email) : ~IsSpace(email[i])
    /\ Cardinality({i \in 1..Len(email) : email[i] = "@"}) = 1
    /\ LET at == CHOOSE i \in 1..Len(email) : email[i] = "@" IN
       /\ at > 1
       /\ \E dot \in (at + 2)..(Len(email) - 1) : email[dot] = "."

\* a FormErrors object: the fields that carry a message; a field set to
\* undefined counts as absent
ErrorsIn(found) ==
    [field \in {f \in DOMAIN found : found[f] # Null} |-> found[field][1]]

\* a validateForm that accepts a form without a course
validateFormWithoutCourse(formData) ==
    ErrorsIn([name |-> IF Trim(formData.name) = <<>>
                       THEN Some("Name is required")
                       ELSE IF Len(Trim(formData.name)) < 2
                       THEN Some("Name must be at least 2 characters")
                       ELSE Null,
              email |-> IF Trim(formData.email) = <<>>
                        THEN Some("Email is required")
                        ELSE IF ~validateEmail(formData.email)
                        THEN Some("Please enter a valid email address")
                        ELSE Null])
validateForm(formData) ==
    ErrorsIn([name |-> IF Trim(formData.name) = <<>>
                       THEN Some("Name is required")
                       ELSE IF Len(Trim(formData.name)) < 2
                       THEN Some("Name must be at least 2 characters")
                       ELSE Null,
              email |-> IF Trim(formData.email) = <<>>
                        THEN Some("Email is required")
                        ELSE IF ~validateEmail(formData.email)
                        THEN Some("Please enter a valid email address")
                        ELSE Null,
              course |-> IF formData.course = <<>>
                         THEN Some("Please select a course")
                         ELSE Null])

\* { ...prev, [field]: message }
WithError(errors, field, message) ==
    [f \in (DOMAIN errors \ {field})
           \cup (IF message = Null THEN {} ELSE {field}) |->
        IF f = field THEN message[1] ELSE errors[f]]

\* the object handleSubmit passes to onSubmit
Submitted(formData) ==
    [name |-> Trim(formData.name),
     email |-> ToLowerCase(Trim(formData.email)),
     course |-> formData.course,
     profileImage |-> formData.profileImage]

\* the page's handleAddStudent; now stands for Date.now().toString(), a
\* reading no other student got
handleAddStudent(p, studentData, now) ==
    [p EXCEPT !.students = Append(@, [id |-> now,
                                      name |-> studentData.name,
                                      email |-> studentData.email,
                                      course |-> studentData.course,
                                      profileImage |-> studentData.profileImage,
                                      enrollmentDate |-> "today"]),
              !.isAddDialogOpen = FALSE]

\* the page's handleDeleteStudent
handleDeleteStudent(p, student) ==
    [p EXCEPT !.deletingStudent = Some(student), !.isDeleteDialogOpen = TRUE]

\* the page's handleConfirmDelete
handleConfirmDelete(p, studentId) ==
    [p EXCEPT !.students = SelectSeq(@, LAMBDA s : s.id # studentId),
              !.isDeleteDialogOpen = FALSE,
              !.deletingStudent = Null]

\* the page's handleCancelDelete
handleCancelDelete(p) ==
    [p EXCEPT !.isDeleteDialogOpen = FALSE, !.deletingStudent = Null]

\* a handleClose that closes the dialog whatever isDeleting is
handleCloseAlways(p, d) ==
    [page |-> handleCancelDelete(p), dialog |-> [d EXCEPT !.error = Null]]
\* the dialog's handleClose
handleClose(p, d) ==
    IF ~d.isDeleting
    THEN [page |-> handleCancelDelete(p), dialog |-> [d EXCEPT !.error = Null]]
    ELSE [page |-> p, dialog |-> d]

\* what the user may type into the name field
FormNames == {<<>>, <<" ">>, <<"A", " ">>, <<" ", "A", "l", " ">>}

\* what the user may type into the email field
FormEmails ==
    {<<" ">>,
     <<"A", "@", "b", ".", "c">>,
     <<"a", "@", "b", "c">>,
     <<"a", "@", ".", "c">>,
     <<" ", "a", "@", "b", ".", "c">>}

\* what the user may choose in the course select
FormCourses == {<<>>} \cup {page.courses[i].name : i \in 1..Min({1, Len(page.courses)})}

FormValues(field) ==
    CASE field = "name" -> FormNames
      [] field = "email" -> FormEmails
      [] field = "course" -> FormCourses

\* what an awaited handler of the parent may do
HandlerOutcomes == {"resolved", "rejected"}

\* a pending setTimeout callback and what its closure holds
Task(kind, instance, formData, studentId, timer) ==
    [kind |-> kind, instance |-> instance, data |-> formData,
     student |-> studentId, timer |-> timer]

\* the page after the courses were fetched and the health check returned
LoadedPage ==
    [InitialPage EXCEPT !.mounted = TRUE, !.loading = FALSE,
                        !.courses = ActiveCourses(SeedCourses),
                        !.apiHealthy = "true"]

\* the main view, which holds the student list and the dialogs, is rendered
MainView == page.mounted /\ ~page.loading /\ page.error = Null

\* a modal dialog keeps the page under it from being clicked
NoDialogOpen == ~page.isAddDialogOpen /\ ~page.isDeleteDialogOpen

UiInit ==
    /\ courses = SeedCourses
    /\ calls = <<>>
    /\ log = <<>>
    /\ page = LoadedPage
    /\ form = NoForm
    /\ dialog = InitialDialog
    /\ tasks = {}

\* the Add Student button: a new StudentForm is mounted in the dialog
OpenAddDialog ==
    /\ MainView
    /\ NoDialogOpen
    /\ page.opened < MaxOpens
    /\ page' = [page EXCEPT !.isAddDialogOpen = TRUE, !.opened = @ + 1]
    /\ form' = FreshForm(page.opened + 1)
    /\ UNCHANGED <<courses, calls, log, dialog, tasks>>

\* Escape, a click outside or on the X, or the form's Cancel button:
\* setIsAddDialogOpen(false); the StudentForm is unmounted
CloseAddDialog ==
    /\ page.isAddDialogOpen
    /\ page' = [page EXCEPT !.isAddDialogOpen = FALSE]
    /\ form' = NoForm
    /\ UNCHANGED <<courses, calls, log, dialog, tasks>>

\* the form's fields and its submit button can be used
FormEditable ==
    /\ page.isAddDialogOpen
    /\ form.mounted
    /\ ~form.isSubmitting
    /\ ~form.submitSuccess

Form_handleInputChange(field, value) ==
    /\ FormEditable
    /\ form' = [form EXCEPT !.formData[field] = value,
                            !.errors = WithError(@, field, Null)]
    /\ UNCHANGED <<courses, calls, log, page, dialog, tasks>>

Form_handleFieldBlur(field) ==
    /\ FormEditable
    /\ LET fieldErrors == validateForm(form.formData) IN
       form' = [form EXCEPT !.errors =
                   WithError(@, field,
                             IF field \in DOMAIN fieldErrors
                             THEN Some(fieldErrors[field]) ELSE Null)]
    /\ UNCHANGED <<courses, calls, log, page, dialog, tasks>>

\* handleSubmit up to its first await
Form_handleSubmit ==
    /\ FormEditable
    /\ LET formErrors == validateForm(form.formData) IN
       IF DOMAIN formErrors # {}
       THEN /\ form' = [form EXCEPT !.errors = formErrors]
            /\ UNCHANGED tasks
       ELSE /\ form' = [form EXCEPT !.isSubmitting = TRUE,
                                    !.errors = ErrorsIn(<<>>)]
            /\ tasks' = tasks \cup
                 {Task("submit", form.instance, form.formData, 0, 1500)}
    /\ UNCHANGED <<courses, calls, log, page, dialog>>

\* the state setters of a StudentForm that is no longer mounted do nothing
StillMounted(f, instance) == f.mounted /\ f.instance = instance

\* handleSubmit after the 1500 ms: onSubmit, and the rest of the try block
\* or the catch block, then finally
SubmitCompletes(t) ==
    /\ t \in tasks
    /\ t.kind = "submit"
    /\ t.timer = 0
    /\ \E outcome \in HandlerOutcomes :
         IF outcome = "resolved"
         THEN /\ page' = handleAddStudent(page, Submitted(t.data), t.instance)
              /\ form' = NoForm
              /\ tasks' = (tasks \ {t}) \cup
                   {Task("autoclose", t.instance, t.data, 0, 1000)}
         ELSE /\ page' = page
              /\ form' = IF StillMounted(form, t.instance)
                         THEN [form EXCEPT
                                 !.errors = ErrorsIn([general |-> Some(
                                     "Failed to save student. Please try again.")]),
                                 !.isSubmitting = FALSE]
                         ELSE form
              /\ tasks' = tasks \ {t}
    /\ UNCHANGED <<courses, calls, log, dialog>>

\* setTimeout(() => { onCancel() }, 1000) fires
AutoCloseFires(t) ==
    /\ t \in tasks
    /\ t.kind = "autoclose"
    /\ t.timer = 0
    /\ page' = [page EXCEPT !.isAddDialogOpen = FALSE]
    /\ form' = NoForm
    /\ tasks' = tasks \ {t}
    /\ UNCHANGED <<courses, calls, log, dialog>>

\* the delete button of a student card
ClickDelete(student) ==
    /\ MainView
    /\ NoDialogOpen
    /\ page' = handleDeleteStudent(page, student)
    /\ UNCHANGED <<courses, calls, log, form, dialog, tasks>>

\* handleConfirm up to its first await
Dialog_handleConfirm ==
    /\ page.isDeleteDialogOpen
    /\ page.deletingStudent # Null
    /\ ~dialog.isDeleting
    /\ dialog' = [dialog EXCEPT !.isDeleting = TRUE, !.error = Null]
    /\ tasks' = tasks \cup
         {Task("delete", 0, NoForm.formData, page.deletingStudent[1].id, 1000)}
    /\ UNCHANGED <<courses, calls, log, page, form>>

\* handleConfirm after the 1000 ms: onConfirm and onClose, or the catch
\* block, then finally
DeleteCompletes(t) ==
    /\ t \in tasks
    /\ t.kind = "delete"
    /\ t.timer = 0
    /\ \E outcome \in HandlerOutcomes :
         IF outcome = "resolved"
         THEN /\ page' = handleCancelDelete(handleConfirmDelete(page, t.student))
              /\ dialog' = [dialog EXCEPT !.isDeleting = FALSE]
         ELSE /\ page' = page
              /\ dialog' = [dialog EXCEPT
                              !.error = Some("Failed to delete student. Please try again."),
                              !.isDeleting = FALSE]
    /\ tasks' = tasks \ {t}
    /\ UNCHANGED <<courses, calls, log, form>>

\* Escape, a click outside or on the X of the delete dialog
Dialog_handleClose ==
    /\ page.isDeleteDialogOpen
    /\ page' = handleClose(page, dialog).page
    /\ dialog' = handleClose(page, dialog).dialog
    /\ UNCHANGED <<courses, calls, log, form, tasks>>

\* the times the user may let pass between two clicks
WaitSteps == {500, 1000, 1500}

\* d milliseconds pass and no timer is due before
Wait(d) ==
    /\ tasks # {}
    /\ \A t \in tasks : t.timer >= d
    /\ tasks' = {[t EXCEPT !.timer = @ - d] : t \in tasks}
    /\ UNCHANGED <<courses, calls, log, page, form, dialog>>

UiNext ==
    \/ OpenAddDialog
    \/ CloseAddDialog
    \/ \E field \in {"name", "email", "course"} :
         \E value \in FormValues(field) : Form_handleInputChange(field, value)
    \/ \E field \in {"name", "email", "course"} : Form_handleFieldBlur(field)
    \/ Form_handleSubmit
    \/ \E t \in tasks : SubmitCompletes(t)
    \/ \E t \in tasks : AutoCloseFires(t)
    \/ \E i \in 1..Len(page.students) : ClickDelete(page.students[i])
    \/ Dialog_handleConfirm
    \/ \E t \in tasks : DeleteCompletes(t)
    \/ Dialog_handleClose
    \/ \E d \in WaitSteps : Wait(d)

UiSpec == UiInit /\ [][UiNext]_vars

\* time passes and due timers fire
UiRuns ==
    \/ \E t \in tasks : SubmitCompletes(t)
    \/ \E t \in tasks : AutoCloseFires(t)
    \/ \E t \in tasks : DeleteCompletes(t)
    \/ \E d \in WaitSteps : Wait(d)

UiLiveSpec == UiSpec /\ WF_vars(UiRuns)

----------------------------------------------------------------------------
(* Properties *)

Last(s) == s[Len(s)]

\* the calls whose retried operation is the list operation and that returned
ListsReturned ==
    {c \in DOMAIN calls : Inner(calls[c].op) = "getCourses" /\ calls[c].pc = "done"}

\* a store mutation takes effect in this step
TakesEffect(op) == Len(log') = Len(log) + 1 /\ Last(log').op = op

\* C1: every successful getCourses() returns only records whose isActive
\* flag is true when the successful attempt reads the store: each returned
\* record is a record of the store as it was read, and active there.
C1_OnlyActiveReturned ==
    \A c \in ListsReturned :
        \A i \in DOMAIN calls[c].result :
            \E j \in DOMAIN courses :
                /\ courses[j] = calls[c].result[i]
                /\ Has(courses[j], "isActive")
                /\ courses[j].isActive = TRUE

\* a list was returned while the store held an inactive record, after
\* creates, updates or deletes
C1_Witness ==
    \E c \in ListsReturned :
        /\ calls[c].op = "getCourses"
        /\ Len(log) >= 2
        /\ Len(calls[c].result) < Len(courses)
        /\ Len(calls[c].result) > 0

\* C2: createCourse assigns the id one greater than the greatest id in the
\* store (1 for an empty store), appends that record, and a createCourse that
\* follows another createCourse gets a greater id than it.
C2_CreateAssignsNextId ==
    [][TakesEffect("createCourse") =>
        LET new == Last(log').result
        IN  /\ new.id = IF courses = <<>> THEN 1
                        ELSE (CHOOSE m \in Ids(courses) :
                                \A x \in Ids(courses) : x <= m) + 1
            /\ \A i \in DOMAIN courses : courses[i].id < new.id
            /\ courses' = Append(courses, new)
            /\ (Len(log) > 0 /\ Last(log).op = "createCourse")
                  => /\ new.id > Last(log).result.id
                     /\ new.id # Last(log).result.id]_vars

\* two createCourse calls in a row returned 6 and then 7
C2_Witness ==
    /\ Len(log) >= 2
    /\ log[1].op = "createCourse" /\ log[1].result.id = 6
    /\ log[2].op = "createCourse" /\ log[2].result.id = 7
    /\ Len(courses) = 7

\* C3: no two records of the store have the same id, whatever createCourse,
\* updateCourse and deleteCourse calls were made.
C3_UniqueIds ==
    \A i, j \in DOMAIN courses : i # j => courses[i].id # courses[j].id

\* the name is missing, or shorter than 3 characters once trimmed
InvalidName(data) == ~Has(data, "name") \/ Len(Trim(data.name)) < 3

\* C4: createCourse with a missing name or one shorter than 3 characters
\* after trimming fails with a validation error on every attempt, is attempted
\* at most 3 times, and the caller receives a validation error.
C4_InvalidNameRejected ==
    \A c \in DOMAIN calls :
        (calls[c].op = "createCourse" /\ InvalidName(calls[c].data)) =>
            /\ calls[c].pc # "done"
            /\ calls[c].invoked <= 3
            /\ calls[c].pc = "backoff" => calls[c].lastError.name = "ValidationError"
            /\ (calls[c].pc = "latency" /\ calls[c].attempt > 1)
                  => calls[c].lastError.name = "ValidationError"
            /\ calls[c].pc = "failed" =>
                  /\ calls[c].invoked = 3
                  /\ calls[c].lastError.name = "ValidationError"
                  /\ calls[c].error.name = "ValidationError"

\* a name of 4 characters that trims to 2 was rejected after 3 attempts
C4_Witness ==
    \E c \in DOMAIN calls :
        /\ calls[c].op = "createCourse"
        /\ Has(calls[c].data, "name")
        /\ Len(calls[c].data.name) >= 3
        /\ InvalidName(calls[c].data)
        /\ calls[c].pc = "failed"
        /\ calls[c].invoked = 3

\* the backoff waits that lie between the first attempt and attempt n
WaitsBefore(delay, n) == IF n >= 1 THEN delay * (2^(n - 1) - 1) ELSE 0

\* C5: withRetry on an operation that always fails invokes it exactly
\* maxAttempts times and then throws; there is no further invocation and no
\* backoff wait after the final failed attempt.
C5_AlwaysFailingStops ==
    \A c \in DOMAIN calls :
        LET call == calls[c]
            n == IF call.maxAttempts > 0 THEN call.maxAttempts ELSE 0
        IN  /\ call.invoked <= n
            /\ call.attempt <= n
            /\ call.pc = "backoff" => call.attempt < call.maxAttempts
            /\ call.pc = "failed" =>
                  /\ call.invoked = n
                  /\ call.timer = -1
                  /\ call.settledAt = n * call.latency + WaitsBefore(call.delay, n)

\* three attempts of 800 ms failed, with waits of 1000 and 2000 ms between
C5_Witness ==
    \E c \in DOMAIN calls :
        /\ calls[c].op = "operation"
        /\ calls[c].maxAttempts = 3 /\ calls[c].delay = 1000
        /\ calls[c].latency = 800
        /\ calls[c].pc = "failed"
        /\ calls[c].invoked = 3
        /\ calls[c].settledAt = 5400

\* C6: the wait after failed attempt n < maxAttempts is delay * 2^(n-1);
\* an operation that fails twice and then succeeds under maxAttempts = 3,
\* delay = 1000 returns the value of its third invocation after a total
\* backoff wait of 3000 ms.
C6_BackoffDoubles ==
    \A c \in DOMAIN calls :
        LET call == calls[c]
        IN  /\ call.pc = "backoff" =>
                  /\ call.attempt < call.maxAttempts
                  /\ call.timer = call.delay * 2^(call.attempt - 1)
                  /\ call.elapsed = call.attempt * call.latency
                                    + WaitsBefore(call.delay, call.attempt)
            /\ call.pc = "latency" =>
                  call.elapsed = (call.attempt - 1) * call.latency
                                 + WaitsBefore(call.delay, call.attempt)
            /\ call.pc = "done" =>
                  /\ call.result = <<"value", call.attempt>>
                  /\ call.settledAt - call.attempt * call.latency
                        = WaitsBefore(call.delay, call.attempt)
            /\ (/\ call.pc = "done" /\ call.attempt = 3
                /\ call.maxAttempts = 3 /\ call.delay = 1000) =>
                  /\ call.result = <<"value", 3>>
                  /\ call.settledAt - 3 * call.latency = 1000 + 2000

\* two failures, then the third invocation succeeded, 3000 ms of waits
C6_Witness ==
    \E c \in DOMAIN calls :
        /\ calls[c].op = "operation"
        /\ calls[c].maxAttempts = 3 /\ calls[c].delay = 1000
        /\ calls[c].latency = 800
        /\ calls[c].pc = "done"
        /\ calls[c].invoked = 3
        /\ calls[c].settledAt = 3 * 800 + 3000

\* C7: checkApiHealth always resolves to a boolean, whatever the list call
\* does, and no later than 5000 ms after it was called.
C7_HealthResolvesInTime ==
    \A c \in DOMAIN calls :
        calls[c].op = "checkApiHealth" =>
            /\ calls[c].race \in {"racing", "true", "false"}
            /\ calls[c].race = "racing" =>
                  /\ calls[c].elapsed < 5000
                  /\ calls[c].raceAt = -1
            /\ calls[c].race # "racing" =>
                  /\ calls[c].raceAt >= 0
                  /\ calls[c].raceAt <= 5000

\* the list call failed after its retries, at 5400 ms; the health check
\* had answered false at 5000 ms
C7_Witness ==
    \E c \in DOMAIN calls :
        /\ calls[c].op = "checkApiHealth"
        /\ calls[c].race = "false"
        /\ calls[c].raceAt = 5000
        /\ calls[c].pc = "failed"
        /\ calls[c].settledAt = 5400

\* C8: checkApiHealth answers true exactly when the list operation settles
\* successfully before the 5000 ms timeout fires, and false when the timeout
\* fires first or the list operation fails.
C8_HealthVerdict ==
    \A c \in DOMAIN calls :
        calls[c].op = "checkApiHealth" =>
            LET call == calls[c]
                listFirst == call.settledAt >= 0 /\ call.settledAt < 5000
                timeoutFirst == /\ call.timeout < 0
                                /\ (call.settledAt < 0 \/ call.settledAt > 5000)
            IN  /\ call.race = "true" <=> (listFirst /\ call.pc = "done")
                /\ call.race = "false" <=>
                      ((listFirst /\ call.pc = "failed") \/ timeoutFirst)
                /\ call.race = "racing" <=> (~listFirst /\ ~timeoutFirst)
                /\ call.race = "true" => call.raceAt = call.settledAt
                /\ timeoutFirst => call.raceAt = 5000

\* the list call succeeded on its second attempt, at 2600 ms: true
C8_Witness ==
    \E c \in DOMAIN calls :
        /\ calls[c].op = "checkApiHealth"
        /\ calls[c].race = "true"
        /\ calls[c].attempt = 2
        /\ calls[c].settledAt = 2600

\* the list call succeeded only on its third attempt, at 5400 ms: false
C8_WitnessLate ==
    \E c \in DOMAIN calls :
        /\ calls[c].op = "checkApiHealth"
        /\ calls[c].race = "false"
        /\ calls[c].pc = "done"
        /\ calls[c].settledAt = 5400

\* C9: after a successful deleteCourse(id) every later successful
\* getCourses() excludes id, no later getCourse(id) succeeds, and the record
\* is still in the store with isActive = false.
C9_DeletedStaysHidden ==
    \A c \in DOMAIN calls :
        (calls[c].pc = "done" /\ calls[c].op \in {"getCourses", "getCourse"}) =>
            \A k \in 1..calls[c].at :
                log[k].op = "deleteCourse" =>
                    /\ calls[c].op = "getCourses"
                          => log[k].id \notin Ids(calls[c].result)
                    /\ calls[c].op = "getCourse" => calls[c].id # log[k].id
                    /\ \E j \in DOMAIN courses :
                          /\ courses[j].id = log[k].id
                          /\ ~IsActive(courses[j])

\* the scenario so far: the first mutation of the seed store created
\* "Data Engineering", the second deleted course 3
CreatedFirst ==
    /\ Len(log) >= 1
    /\ log[1].op = "createCourse"
    /\ log[1].data.name = DataEngineering
ThenDeleted3 ==
    /\ CreatedFirst
    /\ Len(log) >= 2
    /\ log[2].op = "deleteCourse"
    /\ log[2].id = 3

\* C10: from the seed store, createCourse "Data Engineering" returns id 6,
\* enrollmentCount 0, isActive true, whatever the caller supplied for the
\* last two; then deleteCourse(3) returns true and a successful getCourses()
\* returns exactly 5 courses, none with id 3.
C10_Scenario ==
    /\ CreatedFirst =>
          /\ log[1].result.id = 6
          /\ log[1].result.enrollmentCount = 0
          /\ log[1].result.isActive = TRUE
          /\ log[1].result.name = DataEngineering
    /\ ThenDeleted3 => log[2].result = TRUE
    /\ \A c \in DOMAIN calls :
          (/\ ThenDeleted3
           /\ calls[c].pc = "done"
           /\ calls[c].at = 2) =>
              (calls[c].op = "getCourses" =>
                    /\ Len(calls[c].result) = 5
                    /\ Ids(calls[c].result) = {1, 2, 4, 5, 6})

\* the scenario ran to its end, the caller having supplied enrollmentCount
\* and isActive of its own
C10_Witness ==
    \E c \in DOMAIN calls :
        /\ ThenDeleted3
        /\ Has(log[1].data, "enrollmentCount")
        /\ log[1].data.enrollmentCount = 42
        /\ log[1].data.isActive = FALSE
        /\ calls[c].op = "getCourses"
        /\ calls[c].pc = "done"
        /\ calls[c].at = 2
        /\ Len(calls[c].result) = 5

\* the calls whose retried operation is the list operation and that failed
ListsFailed ==
    {c \in DOMAIN calls : Inner(calls[c].op) = "getCourses" /\ calls[c].pc = "failed"}

\* C11: when getCourses fails the caller gets a plain Error, never the
\* NetworkError or ValidationError itself: its message is the network-error
\* text with the status code, the validation-error text, or the generic
\* text, after the kind of the final error.
C11_ListErrorTranslated ==
    \A c \in ListsFailed :
        LET final == calls[c].lastError
            seen == calls[c].error
        IN  /\ seen.name = "Error"
            /\ DOMAIN seen = {"name", "message"}
            /\ final.name = "NetworkError" =>
                  seen.message = <<"Network error: ", final.message,
                                   " (Status: ", final.status, ")">>
            /\ final.name = "ValidationError" =>
                  seen.message = <<"Validation error: ", final.message>>
            /\ final.name \notin {"NetworkError", "ValidationError"} =>
                  seen.message = "An unexpected error occurred while fetching courses"

\* a getCourses failed on a 503 at its third attempt
C11_Witness ==
    \E c \in ListsFailed :
        /\ calls[c].op = "getCourses"
        /\ calls[c].lastError.name = "NetworkError"
        /\ calls[c].lastError.status = 503
        /\ calls[c].error.message[4] = 503

\* an active record of the store carries the id
ActiveInStore(id) ==
    \E j \in DOMAIN courses :
        /\ courses[j].id = id
        /\ Has(courses[j], "isActive")
        /\ courses[j].isActive = TRUE

\* C12: getCourse(id) for an id that no record or only an inactive record
\* carries fails with the store's not-found NetworkError (status 404) itself;
\* getCourse never returns an inactive record.
C12_GetCourseNotFound ==
    \A c \in DOMAIN calls :
        calls[c].op = "getCourse" =>
            /\ calls[c].pc = "done" =>
                  /\ ActiveInStore(calls[c].id)
                  /\ calls[c].result.id = calls[c].id
                  /\ calls[c].result.isActive = TRUE
                  /\ \E j \in DOMAIN courses : courses[j] = calls[c].result
            /\ calls[c].pc = "failed" =>
                  /\ ~ActiveInStore(calls[c].id)
                  /\ calls[c].error.name = "NetworkError"
                  /\ calls[c].error.status = 404
                  /\ calls[c].error.message
                        = <<"Course with ID ", calls[c].id, " not found">>
                  /\ calls[c].error = calls[c].lastError
            /\ (calls[c].pc = "backoff" \/ calls[c].attempt > 1) =>
                  ~ActiveInStore(calls[c].id)

\* getCourse(3) failed with the 404 while record 3 is in the store, inactive
C12_Witness ==
    \E c \in DOMAIN calls :
        /\ calls[c].op = "getCourse"
        /\ calls[c].id = 3
        /\ calls[c].pc = "failed"
        /\ calls[c].error.status = 404
        /\ \E j \in DOMAIN courses : courses[j].id = 3 /\ ~IsActive(courses[j])

MutationsFailed ==
    {c \in DOMAIN calls : calls[c].op \in Mutations /\ calls[c].pc = "failed"}

Rethrown(op, caught) ==
    CASE op = "createCourse" ->
            IF caught.name = "ValidationError" THEN caught
            ELSE PlainError("Failed to create course")
      [] op = "updateCourse" ->
            IF caught.name = "NetworkError" THEN caught
            ELSE PlainError("Failed to update course")
      [] op = "deleteCourse" ->
            IF caught.name = "NetworkError" THEN caught
            ELSE PlainError("Failed to delete course")

C14_NamesAtLeast3 ==
    \A i \in DOMAIN courses :
        /\ Has(courses[i], "name")
        /\ Len(courses[i].name) >= 3

\* the positions of the store whose record carries the id
Carrying(id) == {k \in DOMAIN courses : courses[k].id = id}

\* C15: a successful updateCourse(id, partial) changes only the fields named
\* in partial, on the first record with that id: its other fields keep their
\* values, every other record, the number and the order of the records are
\* unchanged, and the record returned is the record stored after the merge.
C15_UpdateChangesOnlyNamedFields ==
    [][TakesEffect("updateCourse") =>
        LET entry == Last(log')
            i == Min(Carrying(entry.id))
        IN  /\ Carrying(entry.id) # {}
            /\ Len(courses') = Len(courses)
            /\ \A k \in DOMAIN courses : k # i => courses'[k] = courses[k]
            /\ DOMAIN courses'[i] = DOMAIN courses[i] \cup DOMAIN entry.data
            /\ \A f \in DOMAIN courses[i] \ DOMAIN entry.data :
                  courses'[i][f] = courses[i][f]
            /\ \A f \in DOMAIN entry.data : courses'[i][f] = entry.data[f]
            /\ entry.result = courses'[i]]_vars

\* updateCourse(3, {name: "ab"}) took effect: record 3 has the new name and the
\* instructor it had
C15_Witness ==
    /\ Len(log) > 0
    /\ Last(log).op = "updateCourse"
    /\ Last(log).data = [name |-> <<"a", "b">>]
    /\ \E k \in DOMAIN courses :
          /\ courses[k].id = 3
          /\ courses[k].name = <<"a", "b">>
          /\ courses[k].instructor = SeedCourses[3].instructor
          /\ courses[k] = Last(log).result

\* C16: no step removes a record: the number of records never decreases and
\* the record at each position keeps its id, unless the step is an updateCourse
\* on that record whose partial names the id.
C16_RecordsNeverRemoved ==
    [][/\ Len(courses') >= Len(courses)
       /\ \A k \in DOMAIN courses :
             \/ courses'[k].id = courses[k].id
             \/ /\ TakesEffect("updateCourse")
                /\ Has(Last(log').data, "id")
                /\ k = Min(Carrying(Last(log').id))
                /\ courses'[k].id = Last(log').data.id]_vars

\* deleteCourse(3) took effect and record 3 is still in the store, inactive
C16_Witness ==
    /\ Len(log) > 0
    /\ Last(log).op = "deleteCourse"
    /\ Last(log).id = 3
    /\ Len(courses) >= Len(SeedCourses)
    /\ \E k \in DOMAIN courses : courses[k].id = 3 /\ ~IsActive(courses[k])

\* a getCourses (that of checkApiHealth too) returns in this step
ListReturns(c) ==
    /\ c \in DOMAIN calls
    /\ c \in DOMAIN calls'
    /\ Inner(calls[c].op) = "getCourses"
    /\ calls[c].pc = "latency"
    /\ calls'[c].pc = "done"

\* C17: getCourses returns the active records in the order of the store, which
\* is the insertion order: the store starts as the seed list, createCourse
\* adds its record after all others, and updateCourse and deleteCourse keep
\* every record at its position.
C17_InsertionOrder ==
    [][/\ \A c \in DOMAIN calls :
             ListReturns(c) =>
                LET active == {k \in DOMAIN courses : IsActive(courses[k])}
                    rank(k) == Cardinality({j \in active : j <= k})
                IN  /\ Len(calls'[c].result) = Cardinality(active)
                    /\ \A k \in active : calls'[c].result[rank(k)] = courses[k]
       /\ TakesEffect("createCourse") =>
             /\ Len(courses') = Len(courses) + 1
             /\ \A k \in DOMAIN courses : courses'[k] = courses[k]
             /\ courses'[Len(courses')] = Last(log').result
       /\ (TakesEffect("updateCourse") \/ TakesEffect("deleteCourse")) =>
             /\ Len(courses') = Len(courses)
             /\ \A k \in DOMAIN courses :
                   k # Min(Carrying(Last(log').id)) => courses'[k] = courses[k]
       /\ Len(log') = Len(log) => courses' = courses]_vars

\* after deleteCourse(3) and a createCourse, getCourses returned the records
\* 1, 2, 4, 5 of the seed list and then the created record 6
C17_Witness ==
    \E c \in DOMAIN calls :
        /\ calls[c].op = "getCourses"
        /\ calls[c].pc = "done"
        /\ Len(calls[c].result) = 5
        /\ calls[c].result[1] = SeedCourses[1]
        /\ calls[c].result[2] = SeedCourses[2]
        /\ calls[c].result[3] = SeedCourses[4]
        /\ calls[c].result[4] = SeedCourses[5]
        /\ calls[c].result[5].id = 6
        /\ calls[c].result[5].name = DataEngineering

\* the delay timer of the running attempt of call c fires next
AttemptDue(c) ==
    /\ Quiet
    /\ calls[c].pc = "latency"
    /\ calls[c].timer = Due(calls)

\* the attempt of call c ends with the injected NetworkError
InjectsNetworkFault(c) ==
    /\ AttemptSettles(c)
    /\ calls'[c].pc # "done"
    /\ calls'[c].lastError.name = "NetworkError"
    /\ calls'[c].lastError.status = 503

\* the attempt of call c ends with the injected ValidationError
InjectsValidationFault(c) ==
    /\ AttemptSettles(c)
    /\ calls'[c].pc # "done"
    /\ calls'[c].lastError.name = "ValidationError"
    /\ calls'[c].lastError.message = "Invalid request parameters"

\* the attempt of call c fails
AttemptFails(c) ==
    /\ AttemptSettles(c)
    /\ calls'[c].pc # "done"

\* C18 as stated: every attempt of every store operation (list, get-by-id,
\* create, update, delete) may end, after its latency, with an injected
\* NetworkError 503 or an injected ValidationError.
C18_EveryOperationInjectsFaults ==
    \A c \in DOMAIN calls :
        AttemptDue(c) =>
            /\ ENABLED InjectsNetworkFault(c)
            /\ ENABLED InjectsValidationFault(c)

\* C18 (amended): only the list operation is subject to fault injection.
\* Every attempt of fetchCourses may end with the injected NetworkError 503,
\* with the injected ValidationError, or with success; an attempt of
\* get-by-id, update or delete fails only with the 404 of an id not found, an
\* attempt of create only with the ValidationError of a name too short, and
\* whether they fail is decided by the store and the arguments alone.
C18_OnlyListInjectsFaults ==
    \A c \in DOMAIN calls :
        AttemptDue(c) =>
            IF Inner(calls[c].op) = "getCourses"
            THEN /\ ENABLED InjectsNetworkFault(c)
                 /\ ENABLED InjectsValidationFault(c)
                 /\ ENABLED (AttemptSettles(c) /\ calls'[c].pc = "done")
            ELSE /\ ~ENABLED InjectsNetworkFault(c)
                 /\ ~ENABLED InjectsValidationFault(c)
                 /\ ~(ENABLED AttemptFails(c) /\ ENABLED (AttemptSettles(c) /\ calls'[c].pc = "done"))
                 /\ calls[c].op \in {"getCourse", "updateCourse", "deleteCourse"} =>
                       (ENABLED AttemptFails(c) <=> Carrying(calls[c].id) = {}
                                                    \/ (calls[c].op = "getCourse"
                                                        /\ ~ActiveInStore(calls[c].id)))
                 /\ calls[c].op = "createCourse" =>
                       (ENABLED AttemptFails(c) <=> InvalidName(calls[c].data))

\* the third attempt of a getCourses is running after an injected
\* ValidationError ended the second
C18_Witness ==
    \E c \in DOMAIN calls :
        /\ calls[c].op = "getCourses"
        /\ AttemptDue(c)
        /\ calls[c].attempt = 3
        /\ calls[c].lastError = ValidationError("Invalid request parameters")

\* the attempt of call c fails in this step
AttemptFailed(c) ==
    /\ c \in DOMAIN calls
    /\ c \in DOMAIN calls'
    /\ calls[c].pc = "latency"
    /\ calls'[c].pc \in {"backoff", "failed"}

\* C19: whatever error ends attempt n, withRetry waits and starts attempt
\* n + 1 when n < maxAttempts and fails only when n = maxAttempts; so a call
\* that fails, on an unknown id or an invalid name as on injected faults, has
\* invoked the store operation exactly 3 times.
C19_RetryIgnoresErrorType ==
    [][\A c \in DOMAIN calls :
          /\ AttemptFailed(c) =>
                /\ calls'[c].lastError.name \in {"NetworkError", "ValidationError"}
                /\ calls[c].attempt < calls[c].maxAttempts =>
                      /\ calls'[c].pc = "backoff"
                      /\ calls'[c].attempt = calls[c].attempt
                /\ calls[c].attempt = calls[c].maxAttempts => calls'[c].pc = "failed"
          /\ (c \in DOMAIN calls' /\ calls[c].pc = "backoff"
                /\ calls'[c].pc # "backoff") =>
                /\ calls'[c].pc = "latency"
                /\ calls'[c].attempt = calls[c].attempt + 1
                /\ calls'[c].invoked = calls[c].invoked + 1
          /\ (c \in DOMAIN calls' /\ calls'[c].pc = "failed") =>
                calls'[c].invoked = 3]_vars

\* getCourse on the unknown id 6 failed with the 404 after three invocations
C19_Witness ==
    \E c \in DOMAIN calls :
        /\ calls[c].op = "getCourse"
        /\ calls[c].id = 6
        /\ calls[c].pc = "failed"
        /\ calls[c].invoked = 3
        /\ calls[c].lastError.status = 404

Terminal(call) == call.pc \in {"done", "failed"}

\* the steps of the retry state machine of the call kept under c
RetryStep(c) ==
    IF c \notin DOMAIN calls
    THEN \* initial state ATTEMPT(1)
         c \in DOMAIN calls' =>
            /\ calls'[c].pc = "latency"
            /\ calls'[c].attempt = 1
            /\ calls'[c].invoked = 1
            /\ calls'[c].waited = 0
    ELSE IF c \notin DOMAIN calls'
    THEN Terminal(calls[c])
    ELSE CASE calls[c].pc = "latency" ->
                 \* success -> DONE; failure -> WAIT if n < max, FAILED if n = max
                 \/ calls'[c].pc = "latency" /\ calls'[c].attempt = calls[c].attempt
                                             /\ calls'[c].invoked = calls[c].invoked
                 \/ calls'[c].pc = "done" /\ calls'[c].lastError = calls[c].lastError
                 \/ calls'[c].pc = "backoff" /\ calls[c].attempt < calls[c].maxAttempts
                 \/ calls'[c].pc = "failed" /\ calls[c].attempt = calls[c].maxAttempts
           [] calls[c].pc = "backoff" ->
                 \* WAIT(backoff(n)) -> ATTEMPT(n + 1)
                 \/ calls'[c].pc = "backoff" /\ calls'[c].attempt = calls[c].attempt
                 \/ /\ calls'[c].pc = "latency"
                    /\ calls'[c].attempt = calls[c].attempt + 1
                    /\ calls'[c].attempt <= calls[c].maxAttempts
           [] Terminal(calls[c]) ->
                 \* no attempt and no wait after DONE or FAILED
                 /\ calls'[c].pc = calls[c].pc
                 /\ calls'[c].invoked = calls[c].invoked
                 /\ calls'[c].waited = calls[c].waited
                 /\ calls'[c].attempt = calls[c].attempt
                 /\ calls[c].timer = -1
                 /\ calls'[c].timer = -1

\* C20: a retrying call starts in ATTEMPT(1), moves only along
\* ATTEMPT(n) -> DONE, ATTEMPT(n) -> WAIT -> ATTEMPT(n + 1) for n < maxAttempts
\* and ATTEMPT(maxAttempts) -> FAILED, stays in the terminal state it reached,
\* and, every attempt settling and every timer firing, reaches one.
C20_ReachesOneTerminalState ==
    /\ [][\A c \in DOMAIN calls \cup DOMAIN calls' : RetryStep(c)]_vars
    /\ (calls # <<>>) ~> (\E c \in DOMAIN calls : Terminal(calls[c]))

\* a getCourses reached DONE on its third attempt
C20_Witness ==
    \E c \in DOMAIN calls :
        /\ calls[c].op = "getCourses"
        /\ calls[c].pc = "done"
        /\ calls[c].attempt = 3
        /\ calls[c].invoked = 3
        /\ calls[c].waited = 3000

\* C21: the attempts of one call are strictly sequential: attempt n + 1 is
\* started only by the callback of the backoff timer that followed the
\* failure of attempt n, after that timer ran its delay * 2^(n-1) ms; a call
\* has one pending timer at most, and as many invocations as attempts.
C21_AttemptsSequential ==
    [][\A c \in DOMAIN calls \cap DOMAIN calls' :
          /\ calls'[c].invoked = calls'[c].attempt
          /\ (calls[c].pc = "backoff" /\ calls'[c].pc = "backoff") =>
                calls'[c].invoked = calls[c].invoked
          /\ calls'[c].invoked # calls[c].invoked =>
                /\ calls[c].pc = "backoff"
                /\ calls[c].lastError # Undefined
                /\ calls[c].timer = Due(calls)
                /\ calls[c].elapsed + calls[c].timer
                      = calls[c].attempt * calls[c].latency
                        + WaitsBefore(calls[c].delay, calls[c].attempt + 1)
                /\ calls'[c].invoked = calls[c].invoked + 1
                /\ calls'[c].pc = "latency"
                /\ calls'[c].timer = calls[c].latency
                /\ calls'[c].elapsed = calls[c].elapsed + calls[c].timer]_vars

\* the second attempt of a getCourses has just started, 800 + 1000 ms after
\* the call
C21_Witness ==
    \E c \in DOMAIN calls :
        /\ calls[c].op = "getCourses"
        /\ calls[c].pc = "latency"
        /\ calls[c].attempt = 2
        /\ calls[c].invoked = 2
        /\ calls[c].timer = 800
        /\ calls[c].elapsed = 1800

\* checkApiHealth has returned false on its timeout and its list call is
\* still retrying
TimedOutRunning(call) ==
    /\ call.op = "checkApiHealth"
    /\ call.race = "false"
    /\ call.raceAt = HealthTimeout
    /\ ~Terminal(call)

\* C22: when the timeout wins the race the list call is not cancelled: it
\* keeps its pending timer and goes on to DONE or FAILED on its own; the
\* boolean checkApiHealth returned, and the time it returned at, never change
\* afterwards.
C22_TimedOutListCallRunsOn ==
    /\ [][\A c \in DOMAIN calls :
             /\ (calls[c].op = "checkApiHealth" /\ calls[c].race # "racing"
                   /\ c \in DOMAIN calls') =>
                   /\ calls'[c].race = calls[c].race
                   /\ calls'[c].raceAt = calls[c].raceAt
             /\ TimedOutRunning(calls[c]) =>
                   /\ c \in DOMAIN calls'
                   /\ calls[c].timer >= 0
                   /\ calls'[c].invoked >= calls[c].invoked
                   /\ Terminal(calls'[c]) =>
                         /\ calls'[c].settledAt > HealthTimeout
                         /\ calls'[c].pc = "done" => calls'[c].result # NoValue]_vars
    /\ (\E c \in DOMAIN calls : TimedOutRunning(calls[c]))
          ~> (\E c \in DOMAIN calls : /\ calls[c].op = "checkApiHealth"
                                      /\ Terminal(calls[c])
                                      /\ calls[c].race = "false"
                                      /\ calls[c].raceAt = HealthTimeout)

\* the list call of a checkApiHealth that returned false at 5000 ms succeeded
\* on its third attempt, 400 ms later
C22_Witness ==
    \E c \in DOMAIN calls :
        /\ calls[c].op = "checkApiHealth"
        /\ calls[c].race = "false"
        /\ calls[c].raceAt = HealthTimeout
        /\ calls[c].pc = "done"
        /\ calls[c].attempt = 3
        /\ calls[c].settledAt - calls[c].raceAt = 400
        /\ Len(calls[c].result) = Len(SeedCourses)

\* the createCourse calls in flight whose name is valid
ValidCreates ==
    {c \in DOMAIN calls : calls[c].op = "createCourse" /\ ~InvalidName(calls[c].data)}

\* C23: however createCourse calls with valid names in flight together are
\* interleaved, each succeeds on its first attempt, the ids returned are
\* pairwise distinct and new, and each record returned is in the store exactly
\* once.
C23_ConcurrentCreatesDistinct ==
    /\ \A c \in ValidCreates :
          /\ calls[c].pc \in {"latency", "done"}
          /\ calls[c].attempt = 1
          /\ calls[c].pc = "done" =>
                \E k \in DOMAIN log : log[k].result = calls[c].result
    /\ \A k, l \in DOMAIN log : k # l => log[k].result.id # log[l].result.id
    /\ \A k \in DOMAIN log :
          /\ log[k].result.id \notin Ids(SeedCourses)
          /\ Cardinality({j \in DOMAIN courses : courses[j].id = log[k].result.id}) = 1
          /\ Cardinality({j \in DOMAIN courses : courses[j] = log[k].result}) = 1
    /\ Len(courses) = Len(SeedCourses) + Len(log)

\* two createCourse calls with valid names were in flight together (the
\* second one was started, and kept under another number, while the first was
\* pending): one returned the record 6, then the other the record 7
C23_Witness ==
    /\ Len(log) = 2
    /\ log[1].result.id = 6
    /\ log[2].result.id = 7
    /\ \E c \in ValidCreates :
          /\ calls[c].pc = "done"
          /\ calls[c].result.id = 7
          /\ calls[c].settledAt = simulateNetworkDelay("createCourse")
          /\ c # 1

\* an attempt of the updateCourse or deleteCourse kept under c ends in this
\* step
ChangeAttemptEnds(c) ==
    /\ c \in DOMAIN calls
    /\ c \in DOMAIN calls'
    /\ calls[c].op \in {"updateCourse", "deleteCourse"}
    /\ calls[c].pc = "latency"
    /\ calls'[c].pc # "latency"

\* C24: every attempt of updateCourse(id, ...) and deleteCourse(id) on an id
\* no record carries fails with the 404 not-found error and leaves the store
\* as it is; deleteCourse on an id a record carries sets isActive of the first
\* such record to false, changes nothing else, and returns true.
C24_NotFoundOrDeleted ==
    [][\A c \in DOMAIN calls :
          ChangeAttemptEnds(c) =>
             IF Carrying(calls[c].id) = {}
             THEN /\ calls'[c].pc \in {"backoff", "failed"}
                  /\ calls'[c].lastError = NotFound(calls[c].id)
                  /\ calls'[c].lastError.status = 404
                  /\ calls'[c].pc = "failed" =>
                        /\ calls'[c].error = NotFound(calls[c].id)
                        /\ calls'[c].invoked = API_CONFIG.retryAttempts
                  /\ courses' = courses
                  /\ log' = log
             ELSE /\ calls'[c].pc = "done"
                  /\ calls[c].op = "deleteCourse" =>
                        LET i == Min(Carrying(calls[c].id))
                        IN  /\ calls'[c].result = TRUE
                            /\ Len(courses') = Len(courses)
                            /\ \A k \in DOMAIN courses : k # i => courses'[k] = courses[k]
                            /\ DOMAIN courses'[i] = DOMAIN courses[i] \cup {"isActive"}
                            /\ courses'[i].isActive = FALSE
                            /\ \A f \in DOMAIN courses[i] \ {"isActive"} :
                                  courses'[i][f] = courses[i][f]]_vars

\* deleteCourse(6) failed with the 404 after its attempts, no record carrying
\* the id 6, and the store is the seed list
C24_Witness ==
    \E c \in DOMAIN calls :
        /\ calls[c].op = "deleteCourse"
        /\ calls[c].id = 6
        /\ calls[c].pc = "failed"
        /\ calls[c].error.status = 404
        /\ Carrying(6) = {}
        /\ courses = SeedCourses

\* C25: with list latency 800 ms and backoffs of 1000 and 2000 ms,
\* checkApiHealth returns true exactly when its getCourses succeeds on the
\* first or second attempt (at 800 or 2600 ms); a third attempt, succeeding or
\* failing, settles at 5400 ms, so every false is returned by the timeout at
\* exactly 5000 ms.
C25_HealthyWithinTwoAttempts ==
    \A c \in DOMAIN calls :
        calls[c].op = "checkApiHealth" =>
            LET call == calls[c]
            IN  /\ call.race = "true" <=> (call.pc = "done" /\ call.attempt \in {1, 2})
                /\ call.race = "true" => call.raceAt \in {800, 2600}
                /\ call.race = "false" =>
                      /\ call.raceAt = 5000
                      /\ call.attempt = 3
                      /\ call.timeout < 0
                /\ call.pc = "done" =>
                      call.settledAt = CASE call.attempt = 1 -> 800
                                         [] call.attempt = 2 -> 2600
                                         [] call.attempt = 3 -> 5400
                /\ call.pc = "failed" =>
                      /\ call.attempt = 3
                      /\ call.settledAt = 5400
                /\ (Terminal(call) /\ call.attempt = 3) => call.race = "false"
                /\ call.race = "racing" => (~Terminal(call) /\ call.elapsed < 5000)

\* the timeout has just fired, 400 ms after the third attempt of the list call
\* started: checkApiHealth returned false while that attempt is running
C25_Witness ==
    \E c \in DOMAIN calls :
        /\ calls[c].op = "checkApiHealth"
        /\ calls[c].race = "false"
        /\ calls[c].raceAt = 5000
        /\ calls[c].pc = "latency"
        /\ calls[c].attempt = 3
        /\ calls[c].timer = 400

\* the latency of each public operation, in ms
LatencyOf(op) ==
    CASE op \in {"getCourses", "checkApiHealth"} -> 800
      [] op = "getCourse"    -> 400
      [] op = "createCourse" -> 1200
      [] op = "updateCourse" -> 900
      [] op = "deleteCourse" -> 600

\* C26: every attempt awaits the whole latency L of its operation before it
\* reads or writes the store: attempt k ends, and a call settling on attempt k
\* settles, k * L + 1000 * (2^(k-1) - 1) ms after the call was issued.
C26_SettleTimes ==
    \A c \in DOMAIN calls :
        LET call == calls[c]
            k == call.attempt
            L == LatencyOf(call.op)
        IN  /\ k \in 1..3
            /\ call.pc = "latency" =>
                  call.elapsed + call.timer = k * L + 1000 * (2^(k - 1) - 1)
            /\ Terminal(call) =>
                  /\ call.settledAt = k * L + 1000 * (2^(k - 1) - 1)
                  /\ call.invoked = k
            /\ call.pc = "failed" => call.settledAt = 3 * L + 1000 + 2000

\* a getCourses failed 3 * 800 + 1000 + 2000 = 5400 ms after it was issued
C26_Witness ==
    \E c \in DOMAIN calls :
        /\ calls[c].op = "getCourses"
        /\ calls[c].pc = "failed"
        /\ calls[c].attempt = 3
        /\ calls[c].settledAt = 5400
        /\ calls[c].elapsed = 5400

\* the error the n-th invocation of the operation handed to withRetry throws
FailureOf(n) == PlainError(<<"failure", n>>)

\* C27: the error withRetry throws when every attempt failed is the error of
\* the final attempt: lastError is overwritten by each failed attempt, so
\* during the backoff after attempt n it is the error of attempt n, and the
\* call fails with the error of attempt maxAttempts.
C27_LastErrorSurfaces ==
    \A c \in DOMAIN calls :
        (calls[c].op = "operation" /\ calls[c].maxAttempts >= 1) =>
            /\ calls[c].pc = "backoff" => calls[c].lastError = FailureOf(calls[c].attempt)
            /\ (calls[c].pc = "latency" /\ calls[c].attempt > 1) =>
                  calls[c].lastError = FailureOf(calls[c].attempt - 1)
            /\ calls[c].pc = "failed" =>
                  /\ calls[c].attempt = calls[c].maxAttempts
                  /\ calls[c].lastError = FailureOf(calls[c].maxAttempts)
                  /\ calls[c].error = FailureOf(calls[c].maxAttempts)
                  /\ calls[c].maxAttempts > 1 => calls[c].error # FailureOf(1)

\* three attempts failed and the call failed with the error of the third
C27_Witness ==
    \E c \in DOMAIN calls :
        /\ calls[c].op = "operation"
        /\ calls[c].maxAttempts = 3
        /\ calls[c].pc = "failed"
        /\ calls[c].invoked = 3
        /\ calls[c].error.message = <<"failure", 3>>

Reads == {"getCourses", "getCourse", "checkApiHealth"}

\* C28: getCourses, getCourse and checkApiHealth never change the store: no
\* step of such a call, from its start to the moment its outcome is taken,
\* an attempt that succeeds or fails as a backoff or the timeout, changes the
\* list of records or a field of a record; the store changes only in the step
\* in which an attempt of createCourse, updateCourse or deleteCourse succeeds.
C28_ReadsKeepStore ==
    [][/\ \A c \in DOMAIN calls \cup DOMAIN calls' :
             LET call == IF c \in DOMAIN calls THEN calls[c] ELSE calls'[c]
             IN  call.op \in Reads => (courses' = courses /\ log' = log)
       /\ courses' # courses =>
             \E c \in DOMAIN calls \cap DOMAIN calls' :
                /\ calls[c].op \in Mutations
                /\ calls[c].pc = "latency"
                /\ calls'[c].pc = "done"]_vars

\* a getCourses returned on its third attempt, with three mutations and a
\* record created before it, and the store holds the six records still
C28_Witness ==
    \E c \in DOMAIN calls :
        /\ calls[c].op = "getCourses"
        /\ calls[c].pc = "done"
        /\ calls[c].invoked = 3
        /\ Len(log) = 3
        /\ Len(courses) = 6
        /\ \E k \in DOMAIN courses : ~IsActive(courses[k])

\* C29: a createCourse call appends one record, in the step in which it
\* succeeds, and none in any other step: an attempt that fails, the backoff
\* after it and the failure of the call leave the store as it is, and the
\* record returned is in the store once.
C29_CreateAppendsOnce ==
    [][\A c \in DOMAIN calls \cap DOMAIN calls' :
          calls[c].op = "createCourse" =>
             IF calls[c].pc = "latency" /\ calls'[c].pc = "done"
             THEN /\ courses' = Append(courses, calls'[c].result)
                  /\ Cardinality({k \in DOMAIN courses' :
                                     courses'[k] = calls'[c].result}) = 1
                  /\ Len(log') = Len(log) + 1
                  /\ calls'[c].invoked = 1
                  /\ calls'[c].lastError = Undefined
             ELSE /\ courses' = courses
                  /\ log' = log
                  /\ calls'[c].pc = "failed" =>
                        /\ calls'[c].invoked = 3
                        /\ calls'[c].at = 0]_vars

\* a createCourse failed after three attempts and the store is the seed list
C29_Witness ==
    \E c \in DOMAIN calls :
        /\ calls[c].op = "createCourse"
        /\ calls[c].pc = "failed"
        /\ calls[c].invoked = 3
        /\ calls[c].data = [name |-> <<" ", "a", "b", " ">>]
        /\ courses = SeedCourses
        /\ log = <<>>

\* the ids of the deleteCourse calls among the first n mutations that took
\* effect
DeletedWithin(n) == {log[k].id : k \in {j \in 1..n : log[j].op = "deleteCourse"}}

\* C30: once deleteCourse(id) has succeeded, whatever createCourse,
\* updateCourse and deleteCourse calls follow, no active record carries the id
\* again: no later getCourses result (that of checkApiHealth included) holds a
\* record with the id and no later getCourse(id) succeeds.
C30_DeletedStaysDeleted ==
    /\ \A id \in DeletedWithin(Len(log)) : ~ActiveInStore(id)
    /\ \A c \in DOMAIN calls :
          calls[c].pc = "done" =>
             /\ Inner(calls[c].op) = "getCourses" =>
                   Ids(calls[c].result) \cap DeletedWithin(calls[c].at) = {}
             /\ calls[c].op = "getCourse" =>
                   calls[c].result.id \notin DeletedWithin(calls[c].at)

\* the first record carrying the id is soft-deleted
AlreadyDeleted(id) ==
    /\ Carrying(id) # {}
    /\ ~IsActive(courses[Min(Carrying(id))])

\* C31: deleteCourse(id) on a record that is already soft-deleted succeeds on
\* its first attempt, returns true and leaves the store exactly as it was; it
\* does not fail with the not-found error.
C31_DeleteIdempotent ==
    [][\A c \in DOMAIN calls \cap DOMAIN calls' :
          (/\ calls[c].op = "deleteCourse"
           /\ calls[c].pc = "latency"
           /\ calls'[c].pc # "latency"
           /\ AlreadyDeleted(calls[c].id)) =>
              /\ calls'[c].pc = "done"
              /\ calls'[c].attempt = 1
              /\ calls'[c].result = TRUE
              /\ calls'[c].lastError = Undefined
              /\ courses' = courses
              /\ TakesEffect("deleteCourse")]_vars

\* deleteCourse(3) took effect twice in a row and the second call returned
\* true with record 3 in the store, inactive
C31_Witness ==
    /\ Len(log) = 2
    /\ log[1].op = "deleteCourse" /\ log[1].id = 3
    /\ log[2].op = "deleteCourse" /\ log[2].id = 3
    /\ log[2].result = TRUE
    /\ AlreadyDeleted(3)
    /\ \E c \in DOMAIN calls : calls[c].op = "deleteCourse" /\ calls[c].pc = "done"

\* the ids records had carried when the first n mutations had taken effect:
\* those of the seed list and those of the records createCourse and
\* updateCourse returned
EverCarried(n) ==
    Ids(SeedCourses)
    \cup {log[k].result.id :
            k \in {j \in 1..n : log[j].op \in {"createCourse", "updateCourse"}}}

\* C32: the id createCourse assigns is greater than every id a record, active
\* or soft-deleted, carried at any earlier time.
C32_IdsNeverReused ==
    \A k \in DOMAIN log :
        log[k].op = "createCourse" =>
            \A id \in EverCarried(k - 1) : log[k].result.id > id

\* C38: withRetry with maxAttempts <= 0 never invokes the operation and fails
\* at once, throwing its unassigned lastError; a call is DONE only with the
\* value of an invocation that succeeded.
C38_NoAttemptsFails ==
    \A c \in DOMAIN calls :
        /\ calls[c].maxAttempts <= 0 =>
              /\ calls[c].pc = "failed"
              /\ calls[c].invoked = 0
              /\ calls[c].attempt = 0
              /\ calls[c].timer = -1
              /\ calls[c].settledAt = 0
              /\ calls[c].error = Undefined
              /\ calls[c].result = NoValue
        /\ calls[c].pc = "done" =>
              /\ calls[c].maxAttempts >= 1
              /\ calls[c].invoked >= 1
              /\ calls[c].invoked = calls[c].attempt
              /\ calls[c].op = "operation" => calls[c].result = <<"value", calls[c].invoked>>

\* withRetry with maxAttempts = 0 failed without an invocation
C38_Witness ==
    \E c \in DOMAIN calls :
        /\ calls[c].maxAttempts = 0
        /\ calls[c].pc = "failed"
        /\ calls[c].invoked = 0

\* a run of the dashboard's fetchCourses starts
FetchRunStarts == page.fetching = 0 /\ page'.fetching # 0

\* a run of the dashboard's fetchCourses settles
FetchRunSettles == page.fetching # 0 /\ page'.fetching = 0

\* the error view with its Retry button is on screen
ErrorViewShown == page.mounted /\ ~page.loading /\ page.error # Null

\* C33: every run of the dashboard's fetchCourses sets loading and clears the
\* error when it starts; when it settles loading is false again, the error
\* is set exactly if getCourses failed, then to the translated message with
\* apiHealthy false, and otherwise the courses are the ones returned; while
\* the error view is shown Retry can start another run; loading never stays
\* true for ever
C33_FetchRun ==
    /\ [][/\ FetchRunStarts => page'.loading /\ page'.error = Null
          /\ FetchRunSettles =>
                LET call == calls[page.fetching] IN
                /\ ~page'.loading
                /\ page'.error # Null <=> call.pc = "failed"
                /\ call.pc = "failed" =>
                      /\ page'.error = Some(call.error.message)
                      /\ call.error.message[1] \in {"Network error: ", "Validation error: "}
                      /\ page'.apiHealthy = "false"
                /\ call.pc = "done" =>
                      /\ page'.courses = call.result
                      /\ page'.apiHealthy = "true"]_vars
    /\ [](ErrorViewShown /\ page.retryCount < MaxRetries => ENABLED ClickRetry)
    /\ (page.loading ~> ~page.loading)

C33_Witness ==
    /\ ErrorViewShown
    /\ page.retryCount = 1
    /\ page.fetching = 0
    /\ page.error[1][1] = "Network error: "
    /\ page.apiHealthy = "false"

\* fetchCourses and checkHealth, started together when the page was
\* mounted, have both settled and Retry was not clicked since
MountSettled ==
    /\ page.mounted
    /\ page.fetching = 0
    /\ page.checking = 0
    /\ page.retryCount = 0

\* C34: once the fetchCourses and the checkHealth started on mount have both
\* settled, apiHealthy is true if the courses were loaded without error and
\* false if the error view is shown
C34_HealthAgreesWithFetch ==
    MountSettled =>
        /\ page.error = Null => page.apiHealthy = "true"
        /\ page.error # Null => page.apiHealthy = "false"

\* the form data pass validation: a trimmed name of at least 2 characters,
\* a well-formed email and a selected course
PassesValidation(formData) ==
    /\ Len(Trim(formData.name)) >= 2
    /\ validateEmail(formData.email)
    /\ formData.course # <<>>

\* the submissions whose 1500 ms end in this step: onSubmit is called
SubmissionsEnding ==
    {t \in tasks : t.kind = "submit" /\ t.timer = 0 /\ t \notin tasks'}

\* C35: the form calls onSubmit only with data that passed validation, and
\* a student is added only by such a call, with the name trimmed and the
\* email in lower case; a submit of data with a validation error records an
\* error for every field at fault, starts nothing and calls nothing; after
\* every submit attempt isSubmitting is false again
C35_SubmitOnlyValidated ==
    /\ [][/\ \A t \in SubmissionsEnding : PassesValidation(t.data)
          /\ Len(page'.students) > Len(page.students) =>
                \E t \in SubmissionsEnding :
                    LET added == page'.students[Len(page'.students)] IN
                    /\ added.name = Trim(t.data.name)
                    /\ added.email = ToLowerCase(t.data.email)
                    /\ added.course = t.data.course
          /\ Form_handleSubmit /\ ~PassesValidation(form.formData) =>
                /\ Len(Trim(form.formData.name)) < 2 => "name" \in DOMAIN form'.errors
                /\ ~validateEmail(form.formData.email) => "email" \in DOMAIN form'.errors
                /\ form.formData.course = <<>> => "course" \in DOMAIN form'.errors
                /\ ~form'.isSubmitting
                /\ tasks' = tasks
                /\ page' = page
          /\ \A t \in SubmissionsEnding :
                form.mounted /\ form.instance = t.instance => ~form'.isSubmitting]_vars
    /\ [](form.isSubmitting =>
            \E t \in tasks : t.kind = "submit" /\ t.instance = form.instance)
    /\ (form.isSubmitting ~> ~form.isSubmitting)

C35_Witness ==
    /\ page.students # <<>>
    /\ page.students[1].name = <<"A", "l">>
    /\ page.students[1].email = <<"a", "@", "b", ".", "c">>
    /\ form.mounted
    /\ "email" \in DOMAIN form.errors
    /\ ~form.isSubmitting

\* a submission made in the form that is now mounted ends in this step
CurrentSubmissionEnds ==
    \E t \in SubmissionsEnding : form.mounted /\ form.instance = t.instance

\* C36: the Add Student dialog goes from open to closed only in a step of
\* the user closing it or in the step that ends a submission made in the
\* form now open; the auto-close timer of an earlier submission never closes
\* a dialog opened after that submission
C36_ClosedByUserOrOwnSubmission ==
    [][page.isAddDialogOpen /\ ~page'.isAddDialogOpen =>
          CloseAddDialog \/ CurrentSubmissionEnds]_vars

\* the delete whose 1000 ms end in this step
DeletesEnding ==
    {t \in tasks : t.kind = "delete" /\ t.timer = 0 /\ t \notin tasks'}

\* the student list without the student of the given id
Without(students, id) == SelectSeq(students, LAMBDA s : s.id # id)

\* C37: while isDeleting is true the delete dialog stays open unless the
\* 1000 ms of the confirmed delete end in that step; the student list loses
\* a student only in such a step; the step either removes the student,
\* closes the dialog and leaves no error, or leaves the list and the open
\* dialog as they are and sets the error; in both isDeleting is false
\* afterwards; isDeleting is true only while the delay is pending and never
\* stays true for ever
C37_DeleteDialog ==
    /\ [][/\ dialog.isDeleting /\ page.isDeleteDialogOpen /\ DeletesEnding = {} =>
                /\ page'.isDeleteDialogOpen
                /\ page'.deletingStudent = page.deletingStudent
          /\ Len(page'.students) < Len(page.students) => DeletesEnding # {}
          /\ \A t \in DeletesEnding :
                /\ dialog.isDeleting
                /\ ~dialog'.isDeleting
                /\ \/ /\ page'.students = Without(page.students, t.student)
                      /\ Len(page'.students) < Len(page.students)
                      /\ ~page'.isDeleteDialogOpen
                      /\ dialog'.error = Null
                   \/ /\ page'.students = page.students
                      /\ page'.isDeleteDialogOpen
                      /\ page'.deletingStudent = page.deletingStudent
                      /\ dialog'.error = Some("Failed to delete student. Please try again.")]_vars
    /\ [](dialog.isDeleting =>
            /\ page.isDeleteDialogOpen
            /\ \E t \in tasks : t.kind = "delete"
                                /\ page.deletingStudent = Some(CHOOSE s \in {page.students[i] : i \in 1..Len(page.students)} : s.id = t.student))
    /\ (dialog.isDeleting ~> ~dialog.isDeleting)

C37_Witness ==
    /\ page.isDeleteDialogOpen
    /\ dialog.isDeleting
    /\ dialog.error = Null
    /\ Len(page.students) = 2
    /\ \E t \in tasks : t.kind = "delete" /\ t.timer = 0 /\ t.student = 2

====
